---- MODULE Spec2Model ----
(***************************************************************************)
(* The real-time connection registry (ConnectionManager) of the machine    *)
(* control system, driven by the WebSocket endpoint handlers and by the    *)
(* broadcast tasks the transport boundary starts. Every coroutine is cut   *)
(* at its real suspension points (the awaits on the transport and on the   *)
(* broadcast lock): the code between two of them is one atomic step of the *)
(* single-threaded event loop. The Motor, Servo and Valve adapters, the     *)
(* temperature sensor, and the calls made on them directly, through the    *)
(* coordinator (MachineControlService) and through the update endpoint    *)
(* are the second part of the state.                                       *)
(***************************************************************************)
EXTENDS Integers, FiniteSets, Sequences, TLC

\* ------------------------------------------------------------------ bounds
NumDevices == 2
NumBroadcasts == 2

Conns == {"ws1", "ws2"}       \* the WebSocket objects (one endpoint handler each)
Devices == 1..NumDevices      \* the device ids a client message can name
Tasks == 1..NumBroadcasts     \* the broadcast tasks (one per broadcast call)
SpecTasks == {1}              \* Spec runs one broadcast at a time
LockConns == {"ws1"}          \* SpecLock runs one endpoint handler
NoDevice == 0                 \* a frame without device_id
NoTask == 0                   \* the lock is not held

VARIABLES
    active_connections,    \* ConnectionManager.active_connections : set of WebSocket
    device_subscriptions,  \* ConnectionManager.device_subscriptions : dict device_id -> set
    broadcast_lock,        \* ConnectionManager._broadcast_lock : holder and FIFO waiters
    handlers,              \* per WebSocket: position of websocket_device_monitor
    broadcasts             \* per broadcast task: position of broadcast_*/_broadcast_to_connections

\* The devices (Motor, Servo and Valve adapters) and the calls in progress.
VARIABLES
    device_value,          \* per adapter: _current_speed / _current_angle / _is_open
    device_lock,           \* per adapter lock (self._lock): holder and FIFO waiters
    device_log,            \* per adapter: the writes in the order they took its lock
    ops                    \* per call of read() or write(): its position and data

regvars == <<active_connections, device_subscriptions, broadcast_lock, handlers, broadcasts>>
devvars == <<device_value, device_lock, device_log, ops>>
vars == <<active_connections, device_subscriptions, broadcast_lock, handlers, broadcasts,
          device_value, device_lock, device_log, ops>>

\* The registry's two collections as one value, for the pure operators below.
Registry == [active |-> active_connections, subs |-> device_subscriptions]

EmptyDict == [d \in {} |-> {}]

\* dict.get(device_id, set())
SubscribersOf(subs, d) == IF d \in DOMAIN subs THEN subs[d] ELSE {}

get_connection_count(st) == Cardinality(st.active)

get_device_subscriber_count(st, d) == Cardinality(SubscribersOf(st.subs, d))

\* Every connection that appears in some subscription set.
Subscribed(subs) == UNION {subs[d] : d \in DOMAIN subs}

\* ------------------------------------------------------- registry operations
\* Mutant: disconnect deletes the device's key as soon as the connection was
\* one of its subscribers, other subscribers or not.
DisconnectDropsDevice(st, ws) ==
    [active |-> st.active \ {ws},
     subs |-> [d \in {k \in DOMAIN st.subs : ws \notin st.subs[k]} |-> st.subs[d]]]

\* disconnect: set.discard on the active set, then for every key discard and
\* delete the key when its set became empty.
Disconnect(st, ws) ==
    LET stripped == [d \in DOMAIN st.subs |-> st.subs[d] \ {ws}]
        kept == {d \in DOMAIN st.subs : stripped[d] # {}}
    IN [active |-> st.active \ {ws},
        subs |-> [d \in kept |-> stripped[d]]]

\* Mutant: disconnect uses set.remove, which raises KeyError on a connection
\* that is not in the active set.
DisconnectRaisesKeyError(st, ws) == ws \notin st.active

\* disconnect uses discard, which never raises on a missing element.
DisconnectRaises(st, ws) == FALSE

\* Mutant: subscribe assigns a fresh set to the device instead of adding.
SubscribeOverwrites(st, ws, d) ==
    [active |-> st.active,
     subs |-> [k \in DOMAIN st.subs \cup {d} |->
                  IF k = d THEN {ws} ELSE st.subs[k]]]

\* subscribe_to_device up to its await: create the key when missing, add.
Subscribe(st, ws, d) ==
    [active |-> st.active,
     subs |-> IF d \in DOMAIN st.subs
              THEN [st.subs EXCEPT ![d] = @ \cup {ws}]
              ELSE [k \in DOMAIN st.subs \cup {d} |->
                        IF k = d THEN {ws} ELSE st.subs[k]]]

\* Mutant: unsubscribe discards the connection and keeps the key.
UnsubscribeKeepsKey(st, ws, d) ==
    [active |-> st.active,
     subs |-> IF d \notin DOMAIN st.subs THEN st.subs
              ELSE [st.subs EXCEPT ![d] = @ \ {ws}]]

\* Mutant: unsubscribe deletes the device's key without looking at who is
\* left in its set.
UnsubscribeDropsDevice(st, ws, d) ==
    [active |-> st.active,
     subs |-> [k \in DOMAIN st.subs \ {d} |-> st.subs[k]]]

\* unsubscribe_from_device up to its await: discard when the key exists,
\* delete the key when its set became empty.
Unsubscribe(st, ws, d) ==
    [active |-> st.active,
     subs |-> IF d \notin DOMAIN st.subs THEN st.subs
              ELSE IF st.subs[d] \ {ws} = {}
                   THEN [k \in DOMAIN st.subs \ {d} |-> st.subs[k]]
                   ELSE [st.subs EXCEPT ![d] = @ \ {ws}]]

\* Mutant: connect does not add the connection before it sends the welcome.
RegisterAfterWelcome(st, ws) == st

\* connect after accept: add to the active set.
Register(st, ws) == [active |-> st.active \cup {ws}, subs |-> st.subs]

\* Mutant: the reaping loop removes the failed connections from the active
\* set with set.remove, which raises when one of them is already gone.
DisconnectAllRemove(st, failed) ==
    IF failed \subseteq st.active
    THEN [st |-> [active |-> st.active \ failed,
                  subs |-> [d \in {k \in DOMAIN st.subs : st.subs[k] \ failed # {}}
                               |-> st.subs[d] \ failed]],
          raised |-> FALSE]
    ELSE [st |-> st, raised |-> TRUE]

\* The reaping loop of _broadcast_to_connections: disconnect every failed one,
\* in turn; an exception out of disconnect would end the loop.
RECURSIVE DisconnectAll(_, _)
DisconnectAll(st, failed) ==
    IF failed = {} THEN [st |-> st, raised |-> FALSE]
    ELSE LET ws == CHOOSE x \in failed : TRUE
         IN IF DisconnectRaises(st, ws)
            THEN [st |-> st, raised |-> TRUE]
            ELSE DisconnectAll(Disconnect(st, ws), failed \ {ws})

\* ------------------------------------------------------------------- devices
\* The Motor, Servo and Valve adapters, one instance of each, and the calls
\* of read() and write() that can be in progress together.
Adapters == {"motor", "servo", "valve"}
Ops == {1, 2, 3}

MotorMaxSpeed == 255
ServoMaxAngle == 180
InitialSpeed == 0
InitialAngle == 90

\* A value of the data model: its Python type and, for int and bool, its
\* number (True is 1, False is 0).
Value(type, val) == [type |-> type, val |-> val]
NoValue == Value("none", 0)

\* The key each adapter's write looks up in its payload.
Key(a) == IF a = "motor" THEN "speed" ELSE IF a = "servo" THEN "angle" ELSE "value"

MaxOf(a) == IF a = "motor" THEN MotorMaxSpeed ELSE ServoMaxAngle

\* isinstance(x, int): bool is a subclass of int.
IsInt(v) == v.type \in {"int", "bool"}

\* isinstance(x, bool)
IsBool(v) == v.type = "bool"

\* The checks write() makes before it sleeps: the key is present, the value
\* has the type, and for motor and servo 0 <= value <= maximum.
Valid(a, data) ==
    /\ data.key = Key(a)
    /\ IF a = "valve" THEN IsBool(data.value)
       ELSE /\ IsInt(data.value)
            /\ 0 <= data.value.val
            /\ data.value.val <= MaxOf(a)

\* The payloads a caller passes to write(): the adapter's key with an int at
\* and around the ends of its range, a bool, a float or a str, and a dict
\* without the key.
IntsFor(a) ==
    IF a = "motor" THEN {0 - 1, 0, 10, MotorMaxSpeed, MotorMaxSpeed + 1}
    ELSE IF a = "servo" THEN {0 - 1, 0, ServoMaxAngle, ServoMaxAngle + 1}
    ELSE {1}

Payloads(a) ==
    {[key |-> Key(a), value |-> Value("int", i)] : i \in IntsFor(a)} \cup
    {[key |-> Key(a), value |-> Value("bool", b)] : b \in {0, 1}} \cup
    {[key |-> Key(a), value |-> Value(t, 0)] : t \in {"float", "str"}} \cup
    {[key |-> "other", value |-> Value("int", 1)]}

\* Mutant: the lock is a class attribute, one for all adapters.
LockOfShared(a) == "motor"

\* Each adapter owns its lock: self._lock = asyncio.Lock() in __init__.
LockOf(a) == a

DeviceLocks == {LockOf(a) : a \in Adapters}

\* The devices of the machine: the three actuators and the sensor.
AllDevices == Adapters \cup {"temperature"}

\* The body of an update request: one of the fields speed, angle (in halves
\* of a degree, so that 181 is 90.5) and state; no request.
NoRequest == [field |-> "none", val |-> 0]

\* An entry of the map get_all_statuses builds that is not filled yet.
NoEntry == [status |-> "none", value |-> NoValue, message |-> "none"]

\* A call that has not been made.
IdleCall ==
    [pc |-> "idle", dev |-> "none", kind |-> "none", value |-> NoValue,
     result |-> "none", unlocked |-> FALSE, status |-> "none",
     message |-> "none", via |-> "none", id |-> "none", calls |-> <<>>,
     pending |-> <<>>, statuses |-> [a \in AllDevices |-> NoEntry],
     stage |-> "none", request |-> NoRequest, tasks |-> 0,
     previous |-> NoValue]

\* The stored value of an adapter constructed with its default arguments.
InitialValue(a) ==
    IF a = "motor" THEN Value("int", InitialSpeed)
    ELSE IF a = "servo" THEN Value("int", InitialAngle)
    ELSE Value("bool", 0)

InitDevices ==
    /\ device_value = [a \in Adapters |-> InitialValue(a)]
    /\ device_lock = [l \in DeviceLocks |-> [holder |-> NoTask, waiters |-> <<>>]]
    /\ device_log = [a \in Adapters |-> <<>>]
    /\ ops = [o \in Ops |-> IdleCall]

\* ------------------------------------------------------------------ messages
Message(type, d, code, total) ==
    [type |-> type, device_id |-> d, error_code |-> code, total_connections |-> total]

\* The registry call a handler is in: its kind and device, the messages it
\* has passed to send_text, and whether its connection was subscribed (to the
\* device; to any device for disconnect) and active when the call began.
IdleOp ==
    [kind |-> "none", dev |-> NoDevice, sent |-> <<>>,
     was_subscribed |-> FALSE, was_active |-> FALSE]

InitHandler == [pc |-> "Connecting", op |-> IdleOp]

InitBroadcast ==
    [pc |-> "init", kind |-> "none", dev |-> NoDevice,
     snapshot |-> {}, send |-> [c \in Conns |-> "none"],
     attempts |-> [c \in Conns |-> 0], failed |-> {}, result |-> "none"]

Init ==
    /\ active_connections = {}
    /\ device_subscriptions = EmptyDict
    /\ broadcast_lock = [holder |-> NoTask, waiters |-> <<>>]
    /\ handlers = [c \in Conns |-> InitHandler]
    /\ broadcasts = [b \in Tasks |-> InitBroadcast]
    /\ InitDevices

SetRegistry(st) ==
    /\ active_connections' = st.active
    /\ device_subscriptions' = st.subs

\* ------------------------------------------------- the endpoint handler of c
\* _send_to_connection up to its await: one send_text call with the message.
StartSend(h, kind, d, msg, was) ==
    [pc |-> "send",
     op |-> [kind |-> kind, dev |-> d, sent |-> Append(h.op.sent, msg),
             was_subscribed |-> was, was_active |-> FALSE]]

\* connect: await accept (which may raise: the handler then ends before it
\* registered anything), add to the active set, send the welcome message.
Connect(c, accepted) ==
    /\ handlers[c].pc = "Connecting"
    /\ IF accepted
       THEN LET st == Register(Registry, c)
            IN /\ SetRegistry(st)
               /\ handlers' = [handlers EXCEPT ![c] =
                      StartSend(@, "connect", NoDevice,
                                Message("connection_established", NoDevice, "",
                                        get_connection_count(st)), FALSE)]
       ELSE /\ handlers' = [handlers EXCEPT ![c].pc = "done"]
            /\ UNCHANGED <<active_connections, device_subscriptions>>
    /\ UNCHANGED <<broadcast_lock, broadcasts>>
    /\ UNCHANGED devvars

\* The initial_status message the endpoint sends after connect returned.
InitialStatus(c) ==
    /\ handlers[c].pc = "initial"
    /\ handlers' = [handlers EXCEPT ![c] =
           StartSend(@, "initial_status", NoDevice,
                     Message("initial_status", NoDevice, "", 0), FALSE)]
    /\ UNCHANGED <<active_connections, device_subscriptions, broadcast_lock, broadcasts>>
    /\ UNCHANGED devvars

\* The incoming text frames: invalid JSON, or an object with an action and an
\* optional device_id ("other" is any action the endpoint does not know).
Actions == {"subscribe", "unsubscribe", "get_status", "get_all_status", "other"}

Incoming ==
    {[json |-> FALSE, action |-> "other", device_id |-> NoDevice]} \cup
    [json : {TRUE}, action : Actions, device_id : Devices \cup {NoDevice}]

\* The frames without registry effect that Spec feeds the handlers: one that
\* is answered by send_error (the registry cannot tell the error codes apart).
Frames == {m \in Incoming : ~m.json}

\* action subscribe with a device_id: subscribe_to_device up to its await.
ReceiveSubscribe(c, d) ==
    /\ handlers[c].pc = "loop"
    /\ SetRegistry(Subscribe(Registry, c, d))
    /\ handlers' = [handlers EXCEPT ![c] =
           StartSend(@, "subscribe", d,
                     Message("subscription_confirmed", d, "", 0),
                     c \in SubscribersOf(device_subscriptions, d))]
    /\ UNCHANGED <<broadcast_lock, broadcasts>>
    /\ UNCHANGED devvars

\* action unsubscribe with a device_id: unsubscribe_from_device up to its await.
ReceiveUnsubscribe(c, d) ==
    /\ handlers[c].pc = "loop"
    /\ SetRegistry(Unsubscribe(Registry, c, d))
    /\ handlers' = [handlers EXCEPT ![c] =
           StartSend(@, "unsubscribe", d,
                     Message("subscription_removed", d, "", 0),
                     c \in SubscribersOf(device_subscriptions, d))]
    /\ UNCHANGED <<broadcast_lock, broadcasts>>
    /\ UNCHANGED devvars

\* Mutant: every frame but get_all_status is answered with send_error's
\* default error code.
ReplyGeneralError(m, found) ==
    IF m.json /\ m.action = "get_all_status"
    THEN Message("all_device_status", NoDevice, "", 0)
    ELSE Message("error", NoDevice, "general_error", 0)

\* What the endpoint answers to every other frame (found: the machine service
\* owns the device the get_status names).
Reply(m, found) ==
    IF ~m.json THEN Message("error", NoDevice, "json_error", 0)
    ELSE IF m.action \in {"subscribe", "unsubscribe"}
         THEN Message("error", NoDevice, "validation_error", 0)
    ELSE IF m.action = "get_status"
         THEN IF m.device_id = NoDevice
              THEN Message("error", NoDevice, "validation_error", 0)
              ELSE IF found THEN Message("device_status", m.device_id, "", 0)
                   ELSE Message("error", NoDevice, "device_not_found", 0)
    ELSE IF m.action = "get_all_status"
         THEN Message("all_device_status", NoDevice, "", 0)
    ELSE Message("error", NoDevice, "unknown_action", 0)

\* A frame that changes nothing in the registry: send_error, or the status
\* messages sent through _send_to_connection.
ReceiveOther(c, m, found) ==
    /\ handlers[c].pc = "loop"
    /\ ~(m.json /\ m.action \in {"subscribe", "unsubscribe"} /\ m.device_id # NoDevice)
    /\ LET msg == Reply(m, found)
       IN handlers' = [handlers EXCEPT ![c] =
              StartSend(@, IF msg.type = "error" THEN "send_error" ELSE msg.type,
                        msg.device_id, msg, FALSE)]
    /\ UNCHANGED <<active_connections, device_subscriptions, broadcast_lock, broadcasts>>
    /\ UNCHANGED devvars

\* Mutant: the except branch only drops the connection from the active set.
SendFailureKeepsSubscriptions(st, ws, ok) ==
    IF ok THEN st ELSE [active |-> st.active \ {ws}, subs |-> st.subs]

\* Mutant: a failed send drops every connection of the registry.
SendFailureClosesAll(st, ws, ok) ==
    IF ok THEN st ELSE [active |-> {}, subs |-> EmptyDict]

\* _send_to_connection after its await: the send succeeded, or it raised and
\* the except branch disconnects the connection. The caller goes on.
SendToConnectionReturn(st, ws, ok) == IF ok THEN st ELSE Disconnect(st, ws)

SendReturn(c, ok) ==
    /\ handlers[c].pc = "send"
    /\ SetRegistry(SendToConnectionReturn(Registry, c, ok))
    /\ handlers' = [handlers EXCEPT ![c] =
           [pc |-> IF @.op.kind = "connect" THEN "initial" ELSE "loop",
            op |-> IdleOp]]
    /\ UNCHANGED <<broadcast_lock, broadcasts>>
    /\ UNCHANGED devvars

\* Mutant: the endpoint has no finally branch.
HandlerEndsWithoutDisconnect(c) ==
    /\ handlers[c].pc = "loop"
    /\ handlers' = [handlers EXCEPT ![c] =
           [pc |-> "done",
            op |-> [IdleOp EXCEPT
                      !.kind = "disconnect",
                      !.was_subscribed = c \in Subscribed(device_subscriptions),
                      !.was_active = c \in active_connections]]]
    /\ UNCHANGED <<active_connections, device_subscriptions>>
    /\ UNCHANGED <<broadcast_lock, broadcasts>>
    /\ UNCHANGED devvars

\* receive_text raises (WebSocketDisconnect or any error): the finally branch
\* of the endpoint disconnects and the handler ends.
HandlerDisconnect(c) ==
    /\ handlers[c].pc = "loop"
    /\ SetRegistry(Disconnect(Registry, c))
    /\ handlers' = [handlers EXCEPT ![c] =
           [pc |-> "done",
            op |-> [IdleOp EXCEPT
                      !.kind = "disconnect",
                      !.was_subscribed = c \in Subscribed(device_subscriptions),
                      !.was_active = c \in active_connections]]]
    /\ UNCHANGED <<broadcast_lock, broadcasts>>
    /\ UNCHANGED devvars

\* ------------------------------------------------------- the broadcast tasks
\* Mutant: a lock nobody waits for counts as free.
LockFreeUnheld(lock) == lock.waiters = <<>>

\* asyncio.Lock.acquire does not suspend when the lock is not held and nobody
\* waits for it.
LockFree(lock) == lock.holder = NoTask /\ lock.waiters = <<>>

\* asyncio.Lock.release: the first waiter, if any, is woken and owns the lock.
Release(lock) ==
    IF lock.waiters = <<>> THEN [holder |-> NoTask, waiters |-> <<>>]
    ELSE [holder |-> Head(lock.waiters), waiters |-> Tail(lock.waiters)]

\* Mutant: tasks are created for the subscribed connections only.
SendTargetsSubscribed(connections) ==
    connections \cap Subscribed(device_subscriptions)

\* The connections _broadcast_to_connections creates a _safe_send task for:
\* one per element of the set it is handed.
SendTargets(connections) == connections

\* The broadcast coroutine has ended: its message and tasks are gone; what it
\* did (whom it covered, whom it sent to, who failed, how it ended) is kept.
Returned(br, result) ==
    [br EXCEPT !.pc = "done", !.result = result, !.kind = "none",
               !.dev = NoDevice, !.send = [c \in Conns |-> "none"]]

\* _broadcast_to_connections up to gather: returns at once on an empty set,
\* else one task per connection (snapshot: the active set at that moment).
Dispatch(br, connections) ==
    IF connections = {}
    THEN Returned(br, "returned")
    ELSE [br EXCEPT !.pc = "sending",
                    !.snapshot = connections,
                    !.send = [c \in Conns |->
                                 IF c \in SendTargets(connections)
                                 THEN "created" ELSE "none"]]

\* Mutant: a device update goes to the subscribers of its device only.
BroadcastSetSubscribers(st, kind, d) ==
    IF kind = "device_update" THEN st.active \cap SubscribersOf(st.subs, d)
    ELSE st.active

\* The connection set a broadcast hands to _broadcast_to_connections.
BroadcastSet(st, kind, d) == st.active

\* Mutant: the guard is missing.
NoConnectionsUnchecked(st) == FALSE

\* The guard both broadcasts start with: if not self.active_connections.
NoConnections(st) == st.active = {}

\* broadcast_device_update / broadcast_system_status up to the first await
\* that suspends: return on an empty active set; take the lock when it is
\* free and dispatch; else queue on the lock.
BroadcastStart(b, kind, d) ==
    /\ LET br == [broadcasts[b] EXCEPT !.kind = kind, !.dev = d]
           go == Dispatch(br, BroadcastSet(Registry, kind, d))
       IN IF NoConnections(Registry)
          THEN /\ broadcasts' = [broadcasts EXCEPT ![b] = Returned(br, "noop")]
               /\ UNCHANGED broadcast_lock
          ELSE IF LockFree(broadcast_lock)
          THEN /\ broadcast_lock' = IF go.pc = "done" THEN broadcast_lock
                                    ELSE [broadcast_lock EXCEPT !.holder = b]
               /\ broadcasts' = [broadcasts EXCEPT ![b] = go]
          ELSE /\ broadcast_lock' =
                     [broadcast_lock EXCEPT !.waiters = Append(@, b)]
               /\ broadcasts' = [broadcasts EXCEPT ![b] =
                     [br EXCEPT !.pc = "wait_lock"]]
    /\ UNCHANGED <<active_connections, device_subscriptions, handlers>>
    /\ UNCHANGED devvars

\* A broadcast is called by a task of its own.
BroadcastCall(b, kind, d) ==
    /\ broadcasts[b].pc = "init"
    /\ BroadcastStart(b, kind, d)

\* The task update_device created runs: broadcast_device_change builds the
\* message and calls broadcast_device_update with the id of the device.
broadcast_device_change(b) ==
    /\ broadcasts[b].pc = "created"
    /\ BroadcastStart(b, "device_update", broadcasts[b].dev)

\* The waiter resumes owning the lock and dispatches on the active set as it
\* is now; on an empty set it returns and releases the lock.
LockGranted(b) ==
    /\ broadcasts[b].pc = "wait_lock"
    /\ broadcast_lock.holder = b
    /\ LET br == Dispatch(broadcasts[b],
                          BroadcastSet(Registry, broadcasts[b].kind, broadcasts[b].dev))
       IN /\ broadcasts' = [broadcasts EXCEPT ![b] = br]
          /\ broadcast_lock' = IF br.pc = "done" THEN Release(broadcast_lock)
                               ELSE broadcast_lock
    /\ UNCHANGED <<active_connections, device_subscriptions, handlers>>
    /\ UNCHANGED devvars

\* Mutant: the sends are awaited one after the other.
SafeSendStartInTurn(b, c) ==
    /\ broadcasts[b].pc = "sending"
    /\ broadcasts[b].send[c] = "created"
    /\ \A other \in Conns : broadcasts[b].send[other] # "sending"
    /\ broadcasts' = [broadcasts EXCEPT ![b].send[c] = "sending",
                                        ![b].attempts[c] = @ + 1]
    /\ UNCHANGED <<active_connections, device_subscriptions, broadcast_lock, handlers>>
    /\ UNCHANGED devvars

\* A _safe_send task starts: it calls send_text on its connection. The tasks
\* gather created start independently of each other.
SafeSendStart(b, c) ==
    /\ broadcasts[b].pc = "sending"
    /\ broadcasts[b].send[c] = "created"
    /\ broadcasts' = [broadcasts EXCEPT ![b].send[c] = "sending",
                                        ![b].attempts[c] = @ + 1]
    /\ UNCHANGED <<active_connections, device_subscriptions, broadcast_lock, handlers>>
    /\ UNCHANGED devvars

\* Mutant: the failure is caught but not recorded.
SafeSendForgets(br, ws, ok) ==
    [br EXCEPT !.send[ws] = IF ok THEN "sent" ELSE "failed"]

\* _safe_send after its await: a failure is caught and recorded in
\* failed_connections, nothing is raised and nothing else is touched.
SafeSend(br, ws, ok) ==
    [br EXCEPT !.send[ws] = IF ok THEN "sent" ELSE "failed",
               !.failed = IF ok THEN @ ELSE @ \cup {ws}]

\* Mutant: the failed connection is disconnected at once, as
\* _send_to_connection does.
SafeSendReaps(st, ws, ok) == IF ok THEN st ELSE Disconnect(st, ws)

\* What _safe_send does to the registry: nothing, also when the send failed.
SafeSendRegistry(st, ws, ok) == st

SafeSendFinish(b, c, ok) ==
    /\ broadcasts[b].pc = "sending"
    /\ broadcasts[b].send[c] = "sending"
    /\ broadcasts' = [broadcasts EXCEPT ![b] = SafeSend(@, c, ok)]
    /\ SetRegistry(SafeSendRegistry(Registry, c, ok))
    /\ UNCHANGED <<broadcast_lock, handlers>>
    /\ UNCHANGED devvars

\* gather returned: every task has finished.
GatherDone(br) == \A c \in Conns : br.send[c] \in {"none", "sent", "failed"}

\* Mutant: the reaping takes the broadcast lock itself.
ReapWaitsForLock(b) ==
    /\ broadcasts[b].pc = "sending"
    /\ GatherDone(broadcasts[b])
    /\ broadcasts[b].failed = {} \/ LockFree(broadcast_lock)
    /\ LET r == DisconnectAll(Registry, broadcasts[b].failed)
       IN /\ SetRegistry(r.st)
          /\ broadcasts' = [broadcasts EXCEPT ![b] =
                Returned(@, IF r.raised THEN "raised" ELSE "returned")]
    /\ broadcast_lock' = Release(broadcast_lock)
    /\ UNCHANGED handlers
    /\ UNCHANGED devvars

\* _broadcast_to_connections after gather: disconnect every failed connection;
\* then the broadcast leaves the async with block and returns.
Reap(b) ==
    /\ broadcasts[b].pc = "sending"
    /\ GatherDone(broadcasts[b])
    /\ LET r == DisconnectAll(Registry, broadcasts[b].failed)
       IN /\ SetRegistry(r.st)
          /\ broadcasts' = [broadcasts EXCEPT ![b] =
                Returned(@, IF r.raised THEN "raised" ELSE "returned")]
    /\ broadcast_lock' = Release(broadcast_lock)
    /\ UNCHANGED handlers
    /\ UNCHANGED devvars

\* ------------------------------------------------- the calls on the devices
\* The awaits of a call are its cut points: asyncio.sleep, and the acquire
\* and the release of async with self._lock. asyncio grants a free lock
\* without suspending the caller; the calls here may be scheduled between
\* the acquire and the release as well, so that what holds of them rests on
\* the lock and not on how the event loop happens to schedule.

\* Mutant: get_status catches ValueError only.
GetStatusCatchesValueError(call, result, value) ==
    IF result = "returned"
    THEN [call EXCEPT !.pc = "done", !.result = "returned",
                      !.status = "online", !.value = value]
    ELSE IF result = "ValueError"
    THEN [call EXCEPT !.pc = "done", !.result = "returned",
                      !.status = "error", !.message = result]
    ELSE [call EXCEPT !.pc = "done", !.result = result]

\* IODevice.get_status around the outcome of its self.read(): the value under
\* status online, or, for any Exception, its message under status error.
StatusOf(call, result, value) ==
    IF result = "returned"
    THEN [call EXCEPT !.pc = "done", !.result = "returned",
                      !.status = "online", !.value = value]
    ELSE [call EXCEPT !.pc = "done", !.result = "returned",
                      !.status = "error", !.message = result]

\* Whether write() of the adapter reads the stored value before it takes the
\* lock: ServoAdapter.write computes the movement delay from
\* self._current_angle ahead of its sleep and of async with self._lock.
ReadsBeforeLock(a) == a = "servo"

\* int(round(angle)) for an angle given in halves of a degree: Python rounds
\* a half to the even neighbour.
RoundHalfEven(halves) ==
    IF halves % 2 = 0 THEN halves \div 2
    ELSE LET floor == (halves - 1) \div 2
         IN IF floor % 2 = 0 THEN floor ELSE floor + 1

\* No payload: the request lacks the field the device type requires.
NoPayload == [key |-> "none", value |-> NoValue]

\* The payload update_device builds from the request for the device type.
UpdatePayload(a, request) ==
    IF a = "motor" /\ request.field = "speed"
    THEN [key |-> "speed", value |-> Value("int", request.val)]
    ELSE IF a = "servo" /\ request.field = "angle"
    THEN [key |-> "angle", value |-> Value("int", RoundHalfEven(request.val))]
    ELSE IF a = "valve" /\ request.field = "state"
    THEN [key |-> "value", value |-> Value("bool", request.val)]
    ELSE NoPayload

\* The tag the device reports as its device_type.
device_type(a) == IF a = "temperature" THEN "temperature_sensor" ELSE a

\* The detail of the 400 update_device answers with, by the if/elif chain
\* over device.device_type: a motor, servo or valve gets here without the
\* field it requires; the tag temperature is answered as read-only; any
\* other tag as an unknown device type.
Rejection(a) ==
    IF device_type(a) \in {"motor", "servo", "valve"} THEN "missing_field"
    ELSE IF device_type(a) = "temperature" THEN "read_only"
    ELSE "unknown_type"

\* Mutant: a request without the required field is answered as a success.
UpdateAfterReadAlwaysResponds(call, result, value) ==
    IF result # "returned" THEN [call EXCEPT !.pc = "done", !.result = "500"]
    ELSE IF call.stage = "before" /\ call.dev # "temperature"
            /\ UpdatePayload(call.dev, call.request) # NoPayload
            /\ Valid(call.dev, UpdatePayload(call.dev, call.request))
    THEN [call EXCEPT !.pc = "sleep", !.kind = "write", !.stage = "write",
                      !.value = UpdatePayload(call.dev, call.request).value,
                      !.unlocked = ReadsBeforeLock(call.dev)]
    ELSE [call EXCEPT !.pc = "respond", !.value = value]

\* update_device after one of its two reads of the device has ended. A read
\* that raised is answered 500. After the first read the payload is built
\* (400 for a request without the field of the device type and for a type
\* that is none of motor, servo and valve) and write() is called, which
\* raises (500) or goes to its sleep. After the second read the response is
\* built.
UpdateAfterRead(call, result, value) ==
    IF result # "returned" THEN [call EXCEPT !.pc = "done", !.result = "500"]
    ELSE IF call.stage = "after" THEN [call EXCEPT !.pc = "respond", !.value = value]
    ELSE IF call.dev \notin Adapters
            \/ UpdatePayload(call.dev, call.request) = NoPayload
    THEN [call EXCEPT !.pc = "done", !.result = "400",
                      !.message = Rejection(call.dev)]
    ELSE IF Valid(call.dev, UpdatePayload(call.dev, call.request))
    THEN [call EXCEPT !.pc = "sleep", !.kind = "write", !.stage = "write",
                      !.previous = value,
                      !.value = UpdatePayload(call.dev, call.request).value,
                      !.unlocked = ReadsBeforeLock(call.dev)]
    ELSE [call EXCEPT !.pc = "done", !.result = "500"]

\* Mutant: the aggregation stops at the first device whose status is error.
CollectAbortsOnError(call) ==
    IF call.status = "error"
    THEN [call EXCEPT !.pending = <<>>]
    ELSE LET entry == [status |-> call.status, value |-> call.value,
                       message |-> call.message]
             statuses == [call.statuses EXCEPT ![call.dev] = entry]
         IN IF call.pending = <<>>
            THEN [call EXCEPT !.statuses = statuses]
            ELSE LET a == Head(call.pending)
                 IN [call EXCEPT
                       !.pc = IF a = "temperature" THEN "fetch" ELSE "sleep",
                       !.dev = a, !.result = "none", !.status = "none",
                       !.message = "none", !.value = NoValue,
                       !.statuses = statuses,
                       !.pending = Tail(call.pending),
                       !.calls = Append(@, [dev |-> a, kind |-> "status"])]

\* The loop of get_all_statuses after the get_status() of one device has
\* returned: the status is stored under the device, and the loop goes on to
\* the get_status() of the next device, or returns the map after the last.
Collect(call) ==
    LET entry == [status |-> call.status, value |-> call.value,
                  message |-> call.message]
        statuses == [call.statuses EXCEPT ![call.dev] = entry]
    IN IF call.pending = <<>>
       THEN [call EXCEPT !.statuses = statuses]
       ELSE LET a == Head(call.pending)
            IN [call EXCEPT
                  !.pc = IF a = "temperature" THEN "fetch" ELSE "sleep",
                  !.dev = a, !.result = "none", !.status = "none",
                  !.message = "none", !.value = NoValue,
                  !.statuses = statuses,
                  !.pending = Tail(call.pending),
                  !.calls = Append(@, [dev |-> a, kind |-> "status"])]

\* The call after its read() has ended: read() hands the outcome to its
\* caller, get_status() wraps it, and get_all_statuses goes on from the
\* status it got back; a failure that get_status() let through would end it.
ReadReturn(call, result, value) ==
    IF call.kind = "status"
    THEN LET st == StatusOf(call, result, value)
         IN IF call.via = "get_all_statuses" /\ st.result = "returned"
            THEN Collect(st) ELSE st
    ELSE IF call.via = "update_device" THEN UpdateAfterRead(call, result, value)
    ELSE [call EXCEPT !.pc = "done", !.result = result, !.value = value]

\* The call after its write() has returned: update_device goes on to read
\* the device again.
WriteReturn(call) ==
    IF call.via = "update_device"
    THEN [call EXCEPT !.pc = "sleep", !.kind = "read", !.stage = "after",
                      !.unlocked = FALSE]
    ELSE [call EXCEPT !.pc = "done", !.result = "returned"]

\* get_status() of a device up to the first await of its read(): the sleep
\* of the motor, servo and valve, the fetch of the temperature sensor.
get_status(o, a) ==
    /\ ops[o].pc = "idle"
    /\ ops' = [ops EXCEPT ![o] = [IdleCall EXCEPT
                  !.pc = IF a = "temperature" THEN "fetch" ELSE "sleep",
                  !.dev = a, !.kind = "status"]]
    /\ UNCHANGED <<device_value, device_lock, device_log>>
    /\ UNCHANGED regvars

\* read() up to its asyncio.sleep.
read(o, a) ==
    /\ ops[o].pc = "idle"
    /\ ops' = [ops EXCEPT ![o] = [IdleCall EXCEPT !.pc = "sleep", !.dev = a,
                                                   !.kind = "read"]]
    /\ UNCHANGED <<device_value, device_lock, device_log>>
    /\ UNCHANGED regvars

\* Mutant: the new value is stored before it is validated.
RejectedStoresAnyway(old, data) == data.value

\* The stored value after a write that raised ValueError: the checks come
\* before any assignment.
Rejected(old, data) == old

\* write() up to its asyncio.sleep: the checks, each raising ValueError. (The
\* servo then reads _current_angle to compute how long it sleeps.)
write(o, a, data) ==
    /\ ops[o].pc = "idle"
    /\ IF Valid(a, data)
       THEN /\ ops' = [ops EXCEPT ![o] = [IdleCall EXCEPT !.pc = "sleep", !.dev = a,
                                  !.kind = "write", !.value = data.value,
                                  !.unlocked = ReadsBeforeLock(a)]]
            /\ UNCHANGED device_value
       ELSE /\ ops' = [ops EXCEPT ![o] = [IdleCall EXCEPT !.pc = "done", !.dev = a,
                                  !.kind = "write", !.result = "ValueError"]]
            /\ device_value' = [device_value EXCEPT ![a] = Rejected(@, data)]
    /\ UNCHANGED <<device_lock, device_log>>
    /\ UNCHANGED regvars

\* The call holds the lock from here: a write is logged as the last one that
\* entered the critical section of its device.
Enter(o) ==
    /\ ops' = [ops EXCEPT ![o].pc = "locked"]
    /\ device_log' = IF ops[o].kind = "write"
                     THEN [device_log EXCEPT ![ops[o].dev] = Append(@, o)]
                     ELSE device_log

\* Mutant: acquire does not look at the lock.
CanAcquireAlways(lock) == TRUE

\* asyncio.Lock.acquire returns at once when the lock is not held and nobody
\* waits for it.
CanAcquire(lock) == LockFree(lock)

\* The sleep is over: async with self._lock takes the lock, or queues on it.
AcquireDeviceLock(o) ==
    /\ ops[o].pc = "sleep"
    /\ LET l == LockOf(ops[o].dev)
       IN IF CanAcquire(device_lock[l])
          THEN /\ device_lock' = [device_lock EXCEPT ![l].holder = o]
               /\ Enter(o)
          ELSE /\ device_lock' = [device_lock EXCEPT ![l].waiters = Append(@, o)]
               /\ ops' = [ops EXCEPT ![o].pc = "wait_lock"]
               /\ UNCHANGED device_log
    /\ UNCHANGED device_value
    /\ UNCHANGED regvars

\* The waiter the release woke resumes, owning the lock.
DeviceLockGranted(o) ==
    /\ ops[o].pc = "wait_lock"
    /\ device_lock[LockOf(ops[o].dev)].holder = o
    /\ Enter(o)
    /\ UNCHANGED <<device_value, device_lock>>
    /\ UNCHANGED regvars

\* Mutant: the register keeps seven bits of the value.
StoredSevenBit(old, new) == Value(new.type, new.val % 128)

\* The assignment in the critical section of write().
Stored(old, new) == new

\* The body of async with self._lock and the release: read() returns the
\* stored value, write() replaces it.
CriticalSection(o) ==
    /\ ops[o].pc = "locked"
    /\ LET a == ops[o].dev
       IN /\ IF ops[o].kind \in {"read", "status"}
             THEN /\ ops' = [ops EXCEPT ![o] =
                                ReadReturn(@, "returned", device_value[a])]
                  /\ UNCHANGED device_value
             ELSE /\ ops' = [ops EXCEPT ![o] = WriteReturn(@)]
                  /\ device_value' = [device_value EXCEPT ![a] = Stored(@, ops[o].value)]
          /\ device_lock' = [device_lock EXCEPT ![LockOf(a)] = Release(@)]
    /\ UNCHANGED device_log
    /\ UNCHANGED regvars

\* ------------------------------------------------- the temperature sensor
\* What the external fetch of TemperatureAdapter.read can come back with: the
\* exceptions of the HTTP client, or a 2xx response with a body that is not
\* JSON, JSON that is not an object, or an object whose current_weather is
\* absent, null (or any non-object), or an object whose temperature is
\* absent, null, a string, a boolean or a number.
Responses ==
    {"connect_error", "timeout", "status_error", "not_json", "not_object",
     "no_current_weather", "weather_null", "no_temperature",
     "temperature_null", "temperature_str", "temperature_bool",
     "temperature_number"}

\* The payloads a caller passes to the sensor's write().
SensorPayloads == Payloads("valve")

\* Mutant: the sensor accepts a payload that has the key value.
TemperatureWriteAccepts(data) ==
    IF data.key = "value" THEN "returned" ELSE "ValueError"

\* TemperatureAdapter.write raises ValueError whatever it is given.
TemperatureWriteResult(data) == "ValueError"

temperature_write(o, data) ==
    /\ ops[o].pc = "idle"
    /\ ops' = [ops EXCEPT ![o] = [IdleCall EXCEPT !.pc = "done",
                  !.dev = "temperature", !.kind = "write",
                  !.result = TemperatureWriteResult(data)]]
    /\ UNCHANGED <<device_value, device_lock, device_log>>
    /\ UNCHANGED regvars

\* TemperatureAdapter.read up to its await on client.get.
temperature_read(o) ==
    /\ ops[o].pc = "idle"
    /\ ops' = [ops EXCEPT ![o] = [IdleCall EXCEPT !.pc = "fetch",
                  !.dev = "temperature", !.kind = "read"]]
    /\ UNCHANGED <<device_value, device_lock, device_log>>
    /\ UNCHANGED regvars

\* How read() ends for each outcome of the fetch: the except clauses in their
\* order (TimeoutException, HTTPStatusError, RequestError, then KeyError and
\* ValueError, which json.JSONDecodeError is); .get on a value that is not a
\* dict raises AttributeError, which no clause catches; isinstance(x, (int,
\* float)) holds of a bool.
Classify(resp) ==
    IF resp = "timeout" THEN "TimeoutError"
    ELSE IF resp \in {"connect_error", "status_error"} THEN "ConnectionError"
    ELSE IF resp \in {"not_object", "weather_null"} THEN "AttributeError"
    ELSE IF resp \in {"temperature_bool", "temperature_number"} THEN "returned"
    ELSE "ValueError"

\* float(temperature): 21 stands for the number of the body, True gives 1.0.
FetchedValue(resp) ==
    IF resp = "temperature_number" THEN Value("float", 21)
    ELSE IF resp = "temperature_bool" THEN Value("float", 1)
    ELSE NoValue

\* The fetch is over: read() returns the temperature or raises.
FetchReturn(o, resp) ==
    /\ ops[o].pc = "fetch"
    /\ ops' = [ops EXCEPT ![o] = ReadReturn(@, Classify(resp), FetchedValue(resp))]
    /\ UNCHANGED <<device_value, device_lock, device_log>>
    /\ UNCHANGED regvars

\* One step of call o.
DeviceNext(o) ==
    \/ \E a \in Adapters : read(o, a)
    \/ \E a \in Adapters : \E data \in Payloads(a) : write(o, a, data)
    \/ AcquireDeviceLock(o)
    \/ DeviceLockGranted(o)
    \/ CriticalSection(o)
    \/ \E data \in SensorPayloads : temperature_write(o, data)
    \/ temperature_read(o)
    \/ \E resp \in Responses : FetchReturn(o, resp)
    \/ \E a \in AllDevices : get_status(o, a)

\* The devices under every call.
NextDevices == \E o \in Ops : DeviceNext(o)

SpecDevices == Init /\ [][NextDevices]_vars

\* ----------------------------------------------------- the coordinator
\* MachineControlService over the devices the container hands it: one
\* device of each type, in the order of the list.
DeviceOrder == <<"temperature", "valve", "motor", "servo">>

\* The configured id of each device, and an id no device has.
DeviceId(a) ==
    IF a = "motor" THEN "motor_01"
    ELSE IF a = "servo" THEN "servo_01"
    ELSE IF a = "valve" THEN "valve_01"
    ELSE "temp_01"

DeviceIds == {DeviceId(a) : a \in AllDevices} \cup {"ghost_01"}

\* Mutant: an id that is not in the collection resolves to the first device.
GetDeviceOrFirst(id) ==
    IF \E a \in AllDevices : DeviceId(a) = id
    THEN CHOOSE a \in AllDevices : DeviceId(a) = id
    ELSE DeviceOrder[1]

\* self._devices_by_id.get(device_id): the device, or None.
get_device_by_id(id) ==
    IF \E a \in AllDevices : DeviceId(a) = id
    THEN CHOOSE a \in AllDevices : DeviceId(a) = id
    ELSE "none"

\* self._devices_by_type.get(device_type, []): the devices of the type in
\* the order of the list.
get_devices_by_type(t) ==
    SelectSeq(DeviceOrder, LAMBDA a : device_type(a) = t)

\* The calls of the devices as the coordinator makes them: read() and
\* get_status() up to their first await, write() up to its sleep or to the
\* ValueError it raises.
DeviceRead(a) ==
    [IdleCall EXCEPT !.pc = IF a = "temperature" THEN "fetch" ELSE "sleep",
                     !.dev = a, !.kind = "read"]

DeviceStatus(a) ==
    [IdleCall EXCEPT !.pc = IF a = "temperature" THEN "fetch" ELSE "sleep",
                     !.dev = a, !.kind = "status"]

DeviceWrite(a, data) ==
    IF a = "temperature"
    THEN [IdleCall EXCEPT !.pc = "done", !.dev = a, !.kind = "write",
                          !.result = TemperatureWriteResult(data)]
    ELSE IF Valid(a, data)
    THEN [IdleCall EXCEPT !.pc = "sleep", !.dev = a, !.kind = "write",
                          !.value = data.value,
                          !.unlocked = ReadsBeforeLock(a)]
    ELSE [IdleCall EXCEPT !.pc = "done", !.dev = a, !.kind = "write",
                          !.result = "ValueError"]

\* The stored values after write() has run up to its sleep or its raise.
DeviceWriteValue(a, data) ==
    IF a \in Adapters /\ ~Valid(a, data)
    THEN [device_value EXCEPT ![a] = Rejected(@, data)]
    ELSE device_value

\* raise ValueError(f"Device {device_id} not found")
NotFound(via, id) ==
    [IdleCall EXCEPT !.pc = "done", !.via = via, !.id = id,
                     !.result = "NotFound"]

\* The coordinator method via hands over to the call of a device.
Invoke(call, via, id) ==
    [call EXCEPT !.via = via, !.id = id,
                 !.calls = <<[dev |-> call.dev, kind |-> call.kind]>>]

read_device(o, id) ==
    /\ ops[o].pc = "idle"
    /\ LET a == get_device_by_id(id)
       IN ops' = [ops EXCEPT ![o] =
                    IF a = "none" THEN NotFound("read_device", id)
                    ELSE Invoke(DeviceRead(a), "read_device", id)]
    /\ UNCHANGED <<device_value, device_lock, device_log>>
    /\ UNCHANGED regvars

write_device(o, id, data) ==
    /\ ops[o].pc = "idle"
    /\ LET a == get_device_by_id(id)
       IN /\ ops' = [ops EXCEPT ![o] =
                       IF a = "none" THEN NotFound("write_device", id)
                       ELSE Invoke(DeviceWrite(a, data), "write_device", id)]
          /\ device_value' = IF a = "none" THEN device_value
                             ELSE DeviceWriteValue(a, data)
    /\ UNCHANGED <<device_lock, device_log>>
    /\ UNCHANGED regvars

get_device_status(o, id) ==
    /\ ops[o].pc = "idle"
    /\ LET a == get_device_by_id(id)
       IN ops' = [ops EXCEPT ![o] =
                    IF a = "none" THEN NotFound("get_device_status", id)
                    ELSE Invoke(DeviceStatus(a), "get_device_status", id)]
    /\ UNCHANGED <<device_value, device_lock, device_log>>
    /\ UNCHANGED regvars

\* get_all_statuses up to the first await of the get_status() of the first
\* device of the list.
get_all_statuses(o) ==
    /\ ops[o].pc = "idle"
    /\ ops' = [ops EXCEPT ![o] =
                 [Invoke(DeviceStatus(Head(DeviceOrder)), "get_all_statuses", "none")
                    EXCEPT !.pending = Tail(DeviceOrder)]]
    /\ UNCHANGED <<device_value, device_lock, device_log>>
    /\ UNCHANGED regvars

\* The speeds and the states the convenience setters are called with.
SetSpeeds == {0, 10, MotorMaxSpeed}

\* The payload set_motor_speed and set_valve_state write: {"value": x}.
SetterPayload(v) == [key |-> "value", value |-> v]

\* get_motor_speed / get_valve_state: read() of the first device of the type
\* (None when there is none: the container always provides one).
Getter(o, t, via) ==
    /\ ops[o].pc = "idle"
    /\ LET found == get_devices_by_type(t)
       IN ops' = [ops EXCEPT ![o] =
                    IF found = <<>>
                    THEN [IdleCall EXCEPT !.pc = "done", !.via = via,
                                          !.result = "returned"]
                    ELSE Invoke(DeviceRead(found[1]), via, "none")]
    /\ UNCHANGED <<device_value, device_lock, device_log>>
    /\ UNCHANGED regvars

\* set_motor_speed / set_valve_state: write({"value": x}) on the first device
\* of the type.
Setter(o, t, via, v) ==
    /\ ops[o].pc = "idle"
    /\ LET found == get_devices_by_type(t)
       IN IF found = <<>>
          THEN /\ ops' = [ops EXCEPT ![o] =
                           [IdleCall EXCEPT !.pc = "done", !.via = via,
                                            !.result = "ValueError"]]
               /\ UNCHANGED device_value
          ELSE /\ ops' = [ops EXCEPT ![o] =
                           Invoke(DeviceWrite(found[1], SetterPayload(v)), via, "none")]
               /\ device_value' = DeviceWriteValue(found[1], SetterPayload(v))
    /\ UNCHANGED <<device_lock, device_log>>
    /\ UNCHANGED regvars

get_motor_speed(o) == Getter(o, "motor", "get_motor_speed")

set_motor_speed(o, speed) ==
    Setter(o, "motor", "set_motor_speed", Value("int", speed))

get_valve_state(o) == Getter(o, "valve", "get_valve_state")

set_valve_state(o, open_valve) ==
    Setter(o, "valve", "set_valve_state", Value("bool", open_valve))

\* The payloads write_device is called with for an id.
PayloadsFor(id) ==
    IF get_device_by_id(id) \in Adapters
    THEN Payloads(get_device_by_id(id)) ELSE SensorPayloads

\* The calls made on the coordinator at a time.
ServiceOps == {1, 2}

\* One step of a call on the coordinator.
ServiceNext(o) ==
    \/ \E id \in DeviceIds : read_device(o, id)
    \/ \E id \in DeviceIds : \E data \in PayloadsFor(id) : write_device(o, id, data)
    \/ \E id \in DeviceIds : get_device_status(o, id)
    \/ get_all_statuses(o)
    \/ get_motor_speed(o)
    \/ \E speed \in SetSpeeds : set_motor_speed(o, speed)
    \/ get_valve_state(o)
    \/ \E open_valve \in {0, 1} : set_valve_state(o, open_valve)
    \/ AcquireDeviceLock(o)
    \/ DeviceLockGranted(o)
    \/ CriticalSection(o)
    \/ \E resp \in Responses : FetchReturn(o, resp)

\* The devices under the calls on the coordinator.
NextService == \E o \in ServiceOps : ServiceNext(o)

SpecService == Init /\ [][NextService]_vars

\* One step of the endpoint handler of connection c.
HandlerNext(c) ==
    \/ \E accepted \in BOOLEAN : Connect(c, accepted)
    \/ InitialStatus(c)
    \/ \E d \in Devices : ReceiveSubscribe(c, d)
    \/ \E d \in Devices : ReceiveUnsubscribe(c, d)
    \/ \E m \in Frames : ReceiveOther(c, m, TRUE)
    \/ \E ok \in BOOLEAN : SendReturn(c, ok)
    \/ HandlerDisconnect(c)

\* One step of broadcast task b that does not wait for the lock.
BroadcastNext(b) ==
    \/ \E d \in Devices : BroadcastCall(b, "device_update", d)
    \/ BroadcastCall(b, "system_status", NoDevice)
    \/ \E c \in Conns : SafeSendStart(b, c)
    \/ \E c \in Conns, ok \in BOOLEAN : SafeSendFinish(b, c, ok)
    \/ Reap(b)

\* The registry under every handler and one broadcast at a time.
Next ==
    \/ \E c \in Conns : HandlerNext(c)
    \/ \E b \in SpecTasks : BroadcastNext(b)

Spec == Init /\ [][Next]_vars

\* The registry under one handler and every broadcast task: the tasks contend
\* for the broadcast lock.
NextLock ==
    \/ \E c \in LockConns : HandlerNext(c)
    \/ \E b \in Tasks : BroadcastNext(b)
    \/ \E b \in Tasks : LockGranted(b)

SpecLock == Init /\ [][NextLock]_vars

\* Every send a broadcast started ends, by succeeding or by failing, and the
\* event loop runs every task that can run: the tasks gather created, the
\* broadcast after gather, and the waiter the lock was handed to.
FairLock ==
    \A b \in Tasks :
        /\ WF_vars(LockGranted(b))
        /\ WF_vars(Reap(b))
        /\ \A c \in Conns :
              /\ WF_vars(SafeSendStart(b, c))
              /\ WF_vars(\E ok \in BOOLEAN : SafeSendFinish(b, c, ok))

SpecLockFair == SpecLock /\ FairLock

\* The registry under every handler and every incoming frame, without
\* broadcasts.
NextFrames ==
    \/ \E c \in Conns : HandlerNext(c)
    \/ \E c \in Conns, m \in Incoming, found \in BOOLEAN : ReceiveOther(c, m, found)

SpecFrames == Init /\ [][NextFrames]_vars

\* ------------------------------------------------- the update endpoint
\* The bodies of the update requests: a speed, an angle in halves of a degree
\* (181 is 90.5, 183 is 91.5), a state.
UpdateRequests ==
    {[field |-> "speed", val |-> v] : v \in {10, MotorMaxSpeed + 1}} \cup
    {[field |-> "angle", val |-> v] : v \in {181, 183}} \cup
    {[field |-> "state", val |-> v] : v \in {1}}

\* DeviceUpdateRequest: speed is an integer in 0..255, angle a number in
\* 0..180, state a boolean; a body outside of that never reaches the handler.
RequestValid(request) ==
    IF request.field = "speed" THEN request.val \in 0..MotorMaxSpeed
    ELSE IF request.field = "angle" THEN request.val \in 0..(2 * ServoMaxAngle)
    ELSE request.val \in {0, 1}

\* The position of a device in the list of the coordinator: the number its
\* id has in the broadcasts.
DeviceNumber(a) == CHOOSE i \in 1..Len(DeviceOrder) : DeviceOrder[i] = a

\* The task an update request creates for its broadcast.
TaskOf(o) == o

\* update_device up to the first await of its first read of the device: 422
\* for a body the request model rejects, 404 for an id without device.
update_device(o, id, request) ==
    /\ ops[o].pc = "idle"
    /\ LET a == get_device_by_id(id)
           answer(code) == [IdleCall EXCEPT !.pc = "done", !.via = "update_device",
                                            !.id = id, !.request = request,
                                            !.result = code]
       IN ops' = [ops EXCEPT ![o] =
                    IF ~RequestValid(request) THEN answer("422")
                    ELSE IF a = "none" THEN answer("404")
                    ELSE [DeviceRead(a) EXCEPT !.via = "update_device", !.id = id,
                                               !.request = request,
                                               !.stage = "before"]]
    /\ UNCHANGED <<device_value, device_lock, device_log>>
    /\ UNCHANGED regvars

\* Mutant: the request awaits the broadcast it started and answers by how the
\* sends went.
CreateBroadcastTaskAwaits(o) ==
    /\ ops[o].pc = "respond"
    /\ broadcasts[TaskOf(o)].pc \in {"init", "done"}
    /\ IF broadcasts[TaskOf(o)].pc = "init"
       THEN /\ ops' = [ops EXCEPT ![o].tasks = @ + 1]
            /\ broadcasts' = [broadcasts EXCEPT ![TaskOf(o)] =
                                [@ EXCEPT !.pc = "created", !.kind = "device_update",
                                          !.dev = DeviceNumber(ops[o].dev)]]
       ELSE /\ ops' = [ops EXCEPT ![o].pc = "done",
                         ![o].result = IF broadcasts[TaskOf(o)].failed = {}
                                       THEN "200" ELSE "500"]
            /\ UNCHANGED broadcasts
    /\ UNCHANGED <<active_connections, device_subscriptions, broadcast_lock, handlers>>
    /\ UNCHANGED <<device_value, device_lock, device_log>>

\* update_device from its response to its return: the task that will run
\* broadcast_device_change is created, and the response is returned.
CreateBroadcastTask(o) ==
    /\ ops[o].pc = "respond"
    /\ broadcasts[TaskOf(o)].pc = "init"
    /\ ops' = [ops EXCEPT ![o].pc = "done", ![o].result = "200",
                          ![o].tasks = @ + 1]
    /\ broadcasts' = [broadcasts EXCEPT ![TaskOf(o)] =
                        [@ EXCEPT !.pc = "created", !.kind = "device_update",
                                  !.dev = DeviceNumber(ops[o].dev)]]
    /\ UNCHANGED <<active_connections, device_subscriptions, broadcast_lock, handlers>>
    /\ UNCHANGED <<device_value, device_lock, device_log>>

\* One step of an update request.
UpdateNext(o) ==
    \/ \E id \in DeviceIds, request \in UpdateRequests : update_device(o, id, request)
    \/ AcquireDeviceLock(o)
    \/ DeviceLockGranted(o)
    \/ CriticalSection(o)
    \/ \E resp \in Responses : FetchReturn(o, resp)
    \/ CreateBroadcastTask(o)

\* One step of the broadcast an update request created.
UpdateBroadcastNext(b) ==
    \/ broadcast_device_change(b)
    \/ LockGranted(b)
    \/ \E c \in Conns : SafeSendStart(b, c)
    \/ \E c \in Conns, ok \in BOOLEAN : SafeSendFinish(b, c, ok)
    \/ Reap(b)

\* The update requests with the devices under them, the broadcasts they
\* create, and one connection of the registry.
NextUpdate ==
    \/ \E o \in ServiceOps : UpdateNext(o)
    \/ \E b \in Tasks : UpdateBroadcastNext(b)
    \/ \E c \in LockConns : HandlerNext(c)

SpecUpdate == Init /\ [][NextUpdate]_vars

\* ------------------------------------------------------------------ claims
\* The connections whose send failed in broadcast record br.
FailedSends(br) == {c \in Conns : br.send[c] = "failed"}

\* The connections broadcast record br created a _safe_send task for.
Targets(br) == {c \in Conns : br.send[c] # "none"}

\* C1: every connection that appears in a subscription set is in the active
\* set, in every reachable state.
C1_SubscribersAreActive ==
    Subscribed(device_subscriptions) \subseteq active_connections

\* C2: a broadcast over N active connections in which exactly one send failed
\* (and during which nothing else changed the active set) returns with
\* exactly N-1 active connections: every connection whose send succeeded is
\* still active, the failing one is in no collection of the registry.
C2_BroadcastDropsTheFailingOne ==
    [][\A b \in Tasks :
        (/\ broadcasts[b].pc = "sending"
         /\ broadcasts'[b].pc = "done"
         /\ broadcasts[b].snapshot = active_connections
         /\ Cardinality(FailedSends(broadcasts[b])) = 1)
        => /\ Cardinality(active_connections') =
                  Cardinality(broadcasts[b].snapshot) - 1
           /\ broadcasts[b].snapshot \ FailedSends(broadcasts[b])
                  \subseteq active_connections'
           /\ FailedSends(broadcasts[b]) \cap active_connections' = {}
           /\ FailedSends(broadcasts[b]) \cap Subscribed(device_subscriptions') = {}
      ]_vars

\* C2 witness: every send of a broadcast over two active connections has
\* completed, exactly one failed, and the failing connection holds a
\* subscription: the broadcast is about to return.
C2_Witness ==
    \E b \in Tasks :
        /\ broadcasts[b].pc = "sending"
        /\ GatherDone(broadcasts[b])
        /\ broadcasts[b].snapshot = active_connections
        /\ Cardinality(active_connections) = 2
        /\ Cardinality(FailedSends(broadcasts[b])) = 1
        /\ FailedSends(broadcasts[b]) \subseteq Subscribed(device_subscriptions)

\* C3: in one broadcast exactly one send is attempted to each connection that
\* was active when the dispatch began and none to any other connection, and
\* the broadcast does not end before each of them was attempted, whichever
\* sends failed.
C3_OneSendPerActiveConnection ==
    \A b \in Tasks, c \in Conns :
        /\ broadcasts[b].attempts[c] <= 1
        /\ c \notin broadcasts[b].snapshot => broadcasts[b].attempts[c] = 0
        /\ (/\ c \in broadcasts[b].snapshot
            /\ \/ broadcasts[b].pc = "done"
               \/ GatherDone(broadcasts[b]))
           => broadcasts[b].attempts[c] = 1

\* C3 witness: a broadcast over two connections returned, one of its sends
\* failed, and both connections were sent to once.
C3_Witness ==
    \E b \in Tasks :
        /\ broadcasts[b].pc = "done"
        /\ broadcasts[b].snapshot = Conns
        /\ Cardinality(broadcasts[b].failed) = 1
        /\ \A c \in Conns : broadcasts[b].attempts[c] = 1

\* C4: no broadcast ends by raising: whatever subset of its sends failed, all
\* of them included, it returns normally.
C4_BroadcastNeverRaises ==
    \A b \in Tasks :
        /\ broadcasts[b].result # "raised"
        /\ (broadcasts[b].pc = "done" /\ broadcasts[b].snapshot # {})
              => broadcasts[b].result = "returned"

\* C4 witness: a broadcast all of whose sends failed has returned normally.
C4_Witness ==
    \E b \in Tasks :
        /\ broadcasts[b].pc = "done"
        /\ broadcasts[b].result = "returned"
        /\ broadcasts[b].snapshot = Conns
        /\ broadcasts[b].failed = Conns

\* C5: a broadcast is two-phase: no step it takes before its last send has
\* completed changes the active set or the subscription index; the step in
\* which it returns comes after every send completed and leaves every
\* connection whose send failed outside the active set and every
\* subscription set.
C5_SendAllThenReap ==
    [][\A b \in Tasks :
        /\ (broadcasts'[b] # broadcasts[b] /\ broadcasts'[b].pc = "sending")
              => /\ active_connections' = active_connections
                 /\ device_subscriptions' = device_subscriptions
        /\ (broadcasts[b].pc = "sending" /\ broadcasts'[b].pc = "done")
              => /\ GatherDone(broadcasts[b])
                 /\ FailedSends(broadcasts[b]) \cap
                      (active_connections' \cup Subscribed(device_subscriptions')) = {}
      ]_vars

\* C5 witness: in a broadcast one send has failed while another is still
\* pending, and the failed connection is still active and subscribed.
C5_Witness ==
    \E b \in Tasks, c1 \in Conns, c2 \in Conns :
        /\ broadcasts[b].pc = "sending"
        /\ broadcasts[b].send[c1] = "failed"
        /\ broadcasts[b].send[c2] \in {"created", "sending"}
        /\ c1 \in active_connections
        /\ c1 \in Subscribed(device_subscriptions)

\* C6: broadcast_device_update called with an active connection dispatches,
\* and creates a send task for every active connection, subscribed to the
\* device or not; a broadcast all of whose sends succeeded has sent once to
\* each of them and leaves the active set and the subscription index unchanged.
C6_DeviceUpdateReachesEveryActive ==
    [][\A b \in Tasks :
        /\ (/\ broadcasts[b].pc = "init"
            /\ broadcasts'[b] # broadcasts[b]
            /\ active_connections # {})
              => broadcasts'[b].pc \in {"sending", "wait_lock"}
        /\ (/\ broadcasts[b].pc # "sending"
            /\ broadcasts'[b].pc = "sending"
            /\ broadcasts'[b].kind = "device_update")
              => /\ Targets(broadcasts'[b]) = active_connections
                 /\ active_connections' = active_connections
                 /\ device_subscriptions' = device_subscriptions
        /\ (/\ broadcasts[b].pc = "sending"
            /\ broadcasts'[b].pc = "done"
            /\ FailedSends(broadcasts[b]) = {})
              => /\ \A c \in broadcasts[b].snapshot : broadcasts[b].attempts[c] = 1
                 /\ active_connections' = active_connections
                 /\ device_subscriptions' = device_subscriptions
      ]_vars

\* C6 witness: a device update has been sent with success to an active
\* connection that is not subscribed to the updated device.
C6_Witness ==
    \E b \in Tasks, c \in Conns :
        /\ broadcasts[b].pc = "sending"
        /\ broadcasts[b].kind = "device_update"
        /\ broadcasts[b].send[c] = "sent"
        /\ c \in active_connections
        /\ c \notin SubscribersOf(device_subscriptions, broadcasts[b].dev)

\* C7: a broadcast called while the active set is empty returns in that same
\* step, also while another broadcast holds the lock: it attempts no send,
\* creates no task, and changes neither the active set, the subscription
\* index nor the lock.
C7_NoConnectionsNoOp ==
    [][\A b \in Tasks :
        (/\ broadcasts[b].pc = "init"
         /\ broadcasts'[b] # broadcasts[b]
         /\ active_connections = {})
        => /\ broadcasts'[b].pc = "done"
           /\ Targets(broadcasts'[b]) = {}
           /\ \A c \in Conns : broadcasts'[b].attempts[c] = 0
           /\ active_connections' = active_connections
           /\ device_subscriptions' = device_subscriptions
           /\ broadcast_lock' = broadcast_lock
      ]_vars

\* C7 witness: a broadcast has returned as a no-op on an empty active set
\* while another broadcast holds the lock.
C7_Witness ==
    \E b \in Tasks :
        /\ broadcasts[b].pc = "done"
        /\ broadcasts[b].result = "noop"
        /\ active_connections = {}
        /\ broadcast_lock.holder \notin {NoTask, b}

\* The step in which the endpoint handler of c runs disconnect(c).
DisconnectStep(c) == handlers[c].pc = "loop" /\ handlers'[c].pc = "done"

\* C8: after disconnect(c), c is out of the active set and out of every
\* subscriber set, the subscriber count of each device c was subscribed to
\* has dropped by one, and nothing else has changed: the other active
\* connections and the other subscribers of every device are as before.
C8_DisconnectRemovesOnlyItsConnection ==
    [][\A c \in Conns :
        DisconnectStep(c) =>
           /\ active_connections' = active_connections \ {c}
           /\ c \notin Subscribed(device_subscriptions')
           /\ \A d \in Devices :
                /\ SubscribersOf(device_subscriptions', d) =
                      SubscribersOf(device_subscriptions, d) \ {c}
                /\ get_device_subscriber_count(Registry', d) =
                      get_device_subscriber_count(Registry, d) -
                         (IF c \in SubscribersOf(device_subscriptions, d) THEN 1 ELSE 0)
      ]_vars

\* C8 witness: a connection that was active and subscribed has been
\* disconnected, and another connection is still active and subscribed.
C8_Witness ==
    \E c \in Conns, other \in Conns :
        /\ other # c
        /\ handlers[c].pc = "done"
        /\ handlers[c].op.kind = "disconnect"
        /\ handlers[c].op.was_subscribed
        /\ handlers[c].op.was_active
        /\ c \notin active_connections
        /\ other \in active_connections
        /\ other \in Subscribed(device_subscriptions)

\* C9: disconnect never raises; disconnecting twice gives the state that
\* disconnecting once gives; and disconnect of a connection that is in no
\* collection of the registry (closed, or never connected) changes nothing,
\* as an operator on every reachable state and in every step that runs it.
C9_DisconnectIdempotent ==
    [][\A c \in Conns :
        /\ ~DisconnectRaises(Registry, c)
        /\ ~DisconnectRaises(Disconnect(Registry, c), c)
        /\ Disconnect(Disconnect(Registry, c), c) = Disconnect(Registry, c)
        /\ (c \notin active_connections /\ c \notin Subscribed(device_subscriptions))
              => Disconnect(Registry, c) = Registry
        /\ (/\ DisconnectStep(c)
            /\ c \notin active_connections
            /\ c \notin Subscribed(device_subscriptions))
              => /\ active_connections' = active_connections
                 /\ device_subscriptions' = device_subscriptions
      ]_vars

\* C9 witness: the handler has run disconnect on a connection that was
\* already out of the registry, while another connection is registered.
C9_Witness ==
    \E c \in Conns :
        /\ handlers[c].pc = "done"
        /\ handlers[c].op.kind = "disconnect"
        /\ ~handlers[c].op.was_active
        /\ ~handlers[c].op.was_subscribed
        /\ Subscribed(device_subscriptions) # {}

\* The step in which the handler of c calls subscribe_to_device(c, d).
SubscribeStep(c, d) ==
    /\ handlers[c].pc = "loop"
    /\ handlers'[c].pc = "send"
    /\ handlers'[c].op.kind = "subscribe"
    /\ handlers'[c].op.dev = d

\* C10: subscribe_to_device is a set insert: it adds the caller to the
\* device's subscriber set and changes nothing else, so subscribing again
\* leaves the index and the subscriber count as they were; and each call
\* passes exactly one subscription_confirmed message for that device to the
\* caller's send_text, which a successful send leaves at one.
C10_SubscribeIdempotent ==
    [][\A c \in Conns, d \in Devices :
        /\ Subscribe(Subscribe(Registry, c, d), c, d) = Subscribe(Registry, c, d)
        /\ SubscribeStep(c, d) =>
              /\ active_connections' = active_connections
              /\ \A k \in Devices :
                    SubscribersOf(device_subscriptions', k) =
                       SubscribersOf(device_subscriptions, k) \cup
                          (IF k = d THEN {c} ELSE {})
              /\ c \in SubscribersOf(device_subscriptions, d)
                    => /\ device_subscriptions' = device_subscriptions
                       /\ get_device_subscriber_count(Registry', d) =
                             get_device_subscriber_count(Registry, d)
              /\ handlers'[c].op.sent =
                    <<Message("subscription_confirmed", d, "", 0)>>
        /\ (/\ handlers[c].pc = "send"
            /\ handlers[c].op.kind = "subscribe"
            /\ handlers[c].op.dev = d
            /\ handlers'[c].pc # "send")
              => /\ handlers[c].op.sent =
                       <<Message("subscription_confirmed", d, "", 0)>>
                 /\ (c \in active_connections /\ c \in active_connections')
                       => device_subscriptions' = device_subscriptions
      ]_vars

\* C10 witness: an active connection that was already subscribed to the
\* device has subscribed again; it is its only subscriber and this call has
\* sent one message.
C10_Witness ==
    \E c \in Conns :
        /\ handlers[c].pc = "send"
        /\ handlers[c].op.kind = "subscribe"
        /\ handlers[c].op.was_subscribed
        /\ c \in active_connections
        /\ Len(handlers[c].op.sent) = 1
        /\ get_device_subscriber_count(Registry, handlers[c].op.dev) = 1

\* The step in which the handler of c calls unsubscribe_from_device(c, d).
UnsubscribeStep(c, d) ==
    /\ handlers[c].pc = "loop"
    /\ handlers'[c].pc = "send"
    /\ handlers'[c].op.kind = "unsubscribe"
    /\ handlers'[c].op.dev = d

\* C11: unsubscribe_from_device(c, d) for a device c is not subscribed to,
\* with or without other subscribers, does not raise (the call reaches its
\* send), leaves the subscription index and the active set as they were, and
\* passes exactly one subscription_removed message naming d to c's send_text.
C11_UnsubscribeNeverSubscribed ==
    [][\A c \in Conns, d \in Devices :
        /\ c \notin SubscribersOf(device_subscriptions, d)
              => Unsubscribe(Registry, c, d) = Registry
        /\ (UnsubscribeStep(c, d) /\ c \notin SubscribersOf(device_subscriptions, d))
              => /\ device_subscriptions' = device_subscriptions
                 /\ active_connections' = active_connections
                 /\ handlers'[c].op.sent =
                       <<Message("subscription_removed", d, "", 0)>>
      ]_vars

\* C11 witness: a connection is sending the acknowledgment of an unsubscribe
\* from a device it was not subscribed to, once for a device that has another
\* subscriber and once for a device nobody is subscribed to.
C11_Witness ==
    \E c \in Conns, other \in Conns :
        /\ other # c
        /\ handlers[c].pc = "send"
        /\ handlers[c].op.kind = "unsubscribe"
        /\ ~handlers[c].op.was_subscribed
        /\ SubscribersOf(device_subscriptions, handlers[c].op.dev) = {other}
        /\ handlers[other].pc = "send"
        /\ handlers[other].op.kind = "unsubscribe"
        /\ ~handlers[other].op.was_subscribed
        /\ handlers[other].op.dev \notin DOMAIN device_subscriptions

\* The connection was removed by the reaping loop of a broadcast.
Reaped(c) == \E b \in Tasks : broadcasts[b].pc = "done" /\ c \in broadcasts[b].failed

Closed(c) == c \notin active_connections /\ c \notin Subscribed(device_subscriptions)

\* C13: when a send through _send_to_connection fails (the welcome of
\* connect, the initial status, the acknowledgment of subscribe or
\* unsubscribe, an error of send_error), the call returns to its caller, which
\* goes on, with the connection out of the active set and out of every
\* subscription set, and with every other connection's membership and
\* subscriptions as they were.
C13_FailedSendCloses ==
    [][\A c \in Conns :
        SendReturn(c, FALSE) =>
           /\ Closed(c)'
           /\ handlers'[c].pc \in {"initial", "loop"}
           /\ active_connections' = active_connections \ {c}
           /\ \A d \in Devices :
                 SubscribersOf(device_subscriptions', d) =
                    SubscribersOf(device_subscriptions, d) \ {c}
      ]_vars

\* C13 witness: a connection whose handler is in its receive loop is out of
\* the registry without any broadcast having failed on it (a unicast send to
\* it failed), while the other connection is active and subscribed.
C13_Witness ==
    \E c \in Conns, other \in Conns :
        /\ other # c
        /\ handlers[c].pc = "loop"
        /\ Closed(c)
        /\ \A b \in Tasks : c \notin broadcasts[b].failed
        /\ other \in active_connections
        /\ other \in Subscribed(device_subscriptions)

\* C14: Closed is terminal: a connection that was connected and is in no
\* collection of the registry is in none after any step, the steps of its own
\* endpoint handler included.
C14_ClosedIsTerminal ==
    [][\A c \in Conns :
        (handlers[c].pc # "Connecting" /\ Closed(c)) => Closed(c)'
      ]_vars

\* The step in which the handler of c calls send_error(c, ...).
SendErrorStep(c) ==
    /\ handlers[c].pc = "loop"
    /\ handlers'[c].pc = "send"
    /\ handlers'[c].op.kind = "send_error"

\* The other connections are registered and subscribed after the step as
\* they were before it, and their handlers have not moved.
OthersUntouched(c) ==
    \A o \in Conns \ {c} :
        /\ handlers'[o] = handlers[o]
        /\ o \in active_connections' <=> o \in active_connections
        /\ \A d \in Devices :
              o \in SubscribersOf(device_subscriptions', d)
                 <=> o \in SubscribersOf(device_subscriptions, d)

\* C15: send_error(c, message, code) passes exactly one message to c's
\* send_text, of type error; it starts no broadcast and sends nothing to any
\* other connection; and neither the call nor its return, whether the send
\* succeeded or failed, changes the active membership or the subscriptions
\* of any other connection.
C15_SendErrorUnicast ==
    [][\A c \in Conns :
        /\ SendErrorStep(c)
              => /\ Len(handlers'[c].op.sent) = 1
                 /\ handlers'[c].op.sent[1].type = "error"
                 /\ handlers'[c].op.sent[1].error_code # ""
                 /\ OthersUntouched(c)
                 /\ broadcasts' = broadcasts
                 /\ active_connections' = active_connections
                 /\ device_subscriptions' = device_subscriptions
        /\ (/\ handlers[c].pc = "send"
            /\ handlers[c].op.kind = "send_error"
            /\ handlers'[c].pc # "send")
              => /\ Len(handlers[c].op.sent) = 1
                 /\ OthersUntouched(c)
                 /\ broadcasts' = broadcasts
      ]_vars

\* C15 witness: an error is being sent to one connection while the other
\* connection is active and subscribed and has no send pending.
C15_Witness ==
    \E c \in Conns, other \in Conns :
        /\ other # c
        /\ handlers[c].pc = "send"
        /\ handlers[c].op.kind = "send_error"
        /\ handlers[c].op.sent[1].error_code = "unknown_action"
        /\ c \in Subscribed(device_subscriptions)
        /\ handlers[other].pc = "loop"
        /\ other \in active_connections
        /\ other \in Subscribed(device_subscriptions)

\* The malformed frames and the error code each is to be answered with.
Malformed ==
    {m \in Incoming :
        \/ ~m.json
        \/ m.action = "other"
        \/ m.action \in {"subscribe", "unsubscribe", "get_status"}
              /\ m.device_id = NoDevice}

ExpectedCode(m) ==
    IF ~m.json THEN "json_error"
    ELSE IF m.action = "other" THEN "unknown_action"
    ELSE "validation_error"

InCriticalSection(a) == {o \in Ops : ops[o].pc = "locked" /\ ops[o].dev = a}

\* C17: at most one read or write is inside the critical section of a Motor,
\* Servo or Valve at any time, and a call that waits for a lock waits for a
\* call on its own device, never for one on a different device.
C17_OneCallPerDevice ==
    /\ \A a \in Adapters : Cardinality(InCriticalSection(a)) <= 1
    /\ \A o \in Ops :
          ops[o].pc = "wait_lock"
             => LET h == device_lock[LockOf(ops[o].dev)].holder
                IN h # NoTask /\ ops[h].dev = ops[o].dev

\* C17 witness: a call on the motor is in its critical section, another call
\* on the motor waits for it, and meanwhile a call on the servo is in the
\* servo's critical section.
C17_Witness ==
    \E o1 \in Ops, o2 \in Ops, o3 \in Ops :
        /\ ops[o1].pc = "locked" /\ ops[o1].dev = "motor"
        /\ ops[o2].pc = "wait_lock" /\ ops[o2].dev = "motor"
        /\ ops[o3].pc = "locked" /\ ops[o3].dev = "servo"

\* The value adapter a holds according to the order in which the writes took
\* its lock: that of the last write that has left the critical section.
LastWritten(a) ==
    LET log == device_log[a]
        n == Len(log)
        k == IF n > 0 /\ ops[log[n]].pc = "locked" THEN n - 1 ELSE n
    IN IF k = 0 THEN InitialValue(a) ELSE ops[log[k]].value

\* The values the valid writes made to adapter a carry.
WrittenValues(a) ==
    {ops[o].value : o \in {w \in Ops : /\ ops[w].kind = "write"
                                        /\ ops[w].dev = a
                                        /\ ops[w].result # "ValueError"}}

\* C18: the stored value of a device is always the value of the write that
\* entered its critical section last among those that have completed (the
\* initial value before any), so after two concurrent writes it is exactly
\* the value of the later one; and every read returns the initial value or
\* the value of one of the writes.
C18_LastWriterWins ==
    \A a \in Adapters :
        /\ device_value[a] = LastWritten(a)
        /\ \A o \in Ops :
              (ops[o].pc = "done" /\ ops[o].kind = "read" /\ ops[o].dev = a)
                 => ops[o].value \in {InitialValue(a)} \cup WrittenValues(a)

\* C18 witness: two writes of different values to one device and a read that
\* overlapped them have completed: the read returned the value of the first
\* write and the device holds the value of the second.
C18_Witness ==
    \E w1 \in Ops, w2 \in Ops, r \in Ops, a \in Adapters :
        /\ device_log[a] = <<w1, w2>>
        /\ ops[w1].pc = "done" /\ ops[w2].pc = "done"
        /\ ops[w1].value # ops[w2].value
        /\ ops[w1].value # InitialValue(a)
        /\ device_value[a] = ops[w2].value
        /\ ops[r].pc = "done" /\ ops[r].kind = "read" /\ ops[r].dev = a
        /\ ops[r].value = ops[w1].value

\* The value of the last write that took the lock of adapter a.
LastEntered(a) ==
    IF device_log[a] = <<>> THEN InitialValue(a)
    ELSE ops[device_log[a][Len(device_log[a])]].value

\* C19: round trip: every integer of [0,255] on a motor, every integer of
\* [0,180] on a servo and every boolean on a valve is accepted by write and
\* stored as it is; a write leaves its critical section with exactly its
\* value stored, and a read returns the value of the last write that took
\* the lock before it.
C19_WriteReadRoundTrip ==
    [][/\ (\A o \in Ops : ops[o].pc = "idle") =>
             /\ \A a \in {"motor", "servo"} : \A s \in 0..MaxOf(a) :
                   /\ Valid(a, [key |-> Key(a), value |-> Value("int", s)])
                   /\ Stored(device_value[a], Value("int", s)) = Value("int", s)
             /\ \A b \in {0, 1} :
                   /\ Valid("valve", [key |-> "value", value |-> Value("bool", b)])
                   /\ Stored(device_value["valve"], Value("bool", b)) = Value("bool", b)
       /\ \A o \in Ops :
             (ops[o].pc = "locked" /\ ops'[o].pc = "done")
                => IF ops[o].kind = "write"
                   THEN device_value'[ops[o].dev] = ops[o].value
                   ELSE /\ ops'[o].value = LastEntered(ops[o].dev)
                        /\ device_value' = device_value
      ]_vars

\* C19 witness: a read of the motor has returned 255, the value of the one
\* write made to the motor.
C19_Witness ==
    \E w \in Ops, r \in Ops :
        /\ device_log["motor"] = <<w>>
        /\ ops[w].pc = "done"
        /\ ops[w].value = Value("int", MotorMaxSpeed)
        /\ ops[r].pc = "done" /\ ops[r].kind = "read" /\ ops[r].dev = "motor"
        /\ ops[r].value = Value("int", MotorMaxSpeed)

\* C20: a write that raises ValueError (missing key, wrong type, value out
\* of range) leaves the stored value of its device, and everything else of
\* the devices, exactly as it was, also while other calls on the device are
\* in flight; and a payload without the key, or with an int just outside the
\* range, is such a write.
C20_RejectedWriteChangesNothing ==
    [][/\ \A o \in Ops :
             (ops[o].pc = "idle" /\ ops'[o].result = "ValueError")
                => /\ device_value' = device_value
                   /\ device_lock' = device_lock
                   /\ device_log' = device_log
                   /\ \A other \in Ops \ {o} : ops'[other] = ops[other]
       /\ \A a \in Adapters :
             /\ ~Valid(a, [key |-> "other", value |-> Value("int", 1)])
             /\ a # "valve" =>
                   /\ ~Valid(a, [key |-> Key(a), value |-> Value("int", 0 - 1)])
                   /\ ~Valid(a, [key |-> Key(a), value |-> Value("int", MaxOf(a) + 1)])
                   /\ ~Valid(a, [key |-> Key(a), value |-> Value("str", 0)])
      ]_vars

\* C20 witness: a write to the motor was rejected while another write to the
\* motor is inside the critical section and the motor holds a written value.
C20_Witness ==
    \E o \in Ops, w \in Ops :
        /\ ops[o].pc = "done" /\ ops[o].result = "ValueError" /\ ops[o].dev = "motor"
        /\ ops[w].pc = "locked" /\ ops[w].kind = "write" /\ ops[w].dev = "motor"
        /\ device_value["motor"] # InitialValue("motor")

\* The payloads of the domain of adapter a: its key holding an integer of
\* its range (motor, servo) or a boolean (valve).
InDomain(a, data) ==
    /\ data.key = Key(a)
    /\ IF a = "valve" THEN data.value.type = "bool"
       ELSE /\ data.value.type = "int"
            /\ data.value.val \in 0..MaxOf(a)

\* C21: a write is accepted if and only if its payload is in the domain of
\* its device: every other payload (a boolean, float or string for motor and
\* servo, a non-boolean for the valve, a missing key, an integer out of
\* range) is rejected with ValueError.
C21_AcceptsExactlyTheDomain ==
    [][\A o \in Ops, a \in Adapters :
          \A data \in Payloads(a) :
             write(o, a, data)
                => (ops'[o].result # "ValueError" <=> InDomain(a, data))
      ]_vars

\* C22: write on the temperature sensor raises ValueError for every payload
\* and changes nothing: the stored values, locks and logs of the devices and
\* every other call are as before, so what a later read or status of any
\* device reports does not depend on the writes made to the sensor.
C22_TemperatureReadOnly ==
    [][\A o \in Ops :
          (ops[o].pc = "idle" /\ ops'[o].dev = "temperature" /\ ops'[o].kind = "write")
             => /\ ops'[o].pc = "done"
                /\ ops'[o].result = "ValueError"
                /\ ops'[o].value = NoValue
                /\ device_value' = device_value
                /\ device_lock' = device_lock
                /\ device_log' = device_log
                /\ \A other \in Ops \ {o} : ops'[other] = ops[other]
      ]_vars

\* C22 witness: a write to the sensor was rejected, and after it a read of
\* the sensor returned the fetched temperature and a read of the motor the
\* value written to the motor.
C22_Witness ==
    \E o \in Ops, r \in Ops :
        /\ ops[o].pc = "done" /\ ops[o].dev = "temperature"
        /\ ops[o].kind = "write" /\ ops[o].result = "ValueError"
        /\ ops[r].pc = "done" /\ ops[r].dev = "temperature"
        /\ ops[r].kind = "read" /\ ops[r].value = Value("float", 21)
        /\ device_value["motor"] # InitialValue("motor")

\* The outcomes the claim allows for each result of the fetch (a JSON boolean
\* is allowed both as a number and as a non-number).
ExpectedOfFetch(resp) ==
    IF resp = "timeout" THEN {"TimeoutError"}
    ELSE IF resp \in {"connect_error", "status_error"} THEN {"ConnectionError"}
    ELSE IF resp = "temperature_number" THEN {"returned"}
    ELSE IF resp = "temperature_bool" THEN {"returned", "ValueError"}
    ELSE {"ValueError"}

\* C27: the temperature read classifies every failure of the fetch: a
\* connection failure and a non-2xx response raise ConnectionError, an
\* exceeded deadline raises TimeoutError, a body whose
\* current_weather.temperature is missing or not a number raises ValueError,
\* and a value is returned only for a 2xx response with a numeric
\* temperature.
C27_FetchFailuresClassified ==
    [][\A o \in Ops, resp \in Responses :
          FetchReturn(o, resp) => ops'[o].result \in ExpectedOfFetch(resp)
      ]_vars

\* C29: for Motor, Servo and Valve every access of read() and write() to the
\* stored value happens while the call holds the lock of the device: no call
\* has read or replaced the stored value outside the critical section, and
\* the stored value changes only in a step of the holder of the lock.
C29_AccessesUnderLock ==
    \A o \in Ops : ops[o].dev \in Adapters => ~ops[o].unlocked

\* The broadcast is in its dispatch phase: its sends are created or running,
\* or it is about to reap the connections that failed.
Dispatching(b) == broadcasts[b].pc = "sending"

\* C30: the dispatch phases of two broadcasts never overlap: at most one
\* broadcast (device update or system status) is sending or reaping, that one
\* holds the broadcast lock, and a broadcast starts its sends only in a state
\* where no other broadcast is still sending or has yet to reap.
C30_DispatchPhasesDisjoint ==
    [][/\ \A b1 \in Tasks, b2 \in Tasks :
             (Dispatching(b1) /\ Dispatching(b2)) => b1 = b2
       /\ \A b \in Tasks : Dispatching(b) => broadcast_lock.holder = b
       /\ \A b \in Tasks :
             (~Dispatching(b) /\ Dispatching(b)')
                => \A other \in Tasks \ {b} :
                      ~Dispatching(other) /\ ~Dispatching(other)'
      ]_vars

\* C30 witness: a broadcast called while another one was sending waits for
\* the lock; the first one has sent to its connection, the send failed, and
\* it has yet to reap.
C30_Witness ==
    \E b1 \in Tasks, b2 \in Tasks :
        /\ b1 # b2
        /\ Dispatching(b1)
        /\ GatherDone(broadcasts[b1])
        /\ broadcasts[b1].failed # {}
        /\ broadcasts[b2].pc = "wait_lock"
        /\ broadcast_lock.waiters = <<b2>>

\* C23: get_status() of any device never raises: when the read of the device
\* succeeds it returns status online with the value read (the stored value
\* of a motor, servo or valve, the fetched temperature of the sensor); when
\* the read fails with any error it returns status error with that failure
\* as its message.
C23_StatusNeverRaises ==
    [][\A o \in Ops :
          (ops[o].kind = "status" /\ ops[o].pc # "done" /\ ops'[o].pc = "done")
             => /\ ops'[o].result = "returned"
                /\ ops'[o].dev = ops[o].dev
                /\ IF ops[o].dev \in Adapters
                   THEN /\ ops'[o].status = "online"
                        /\ ops'[o].value = device_value[ops[o].dev]
                   ELSE \A resp \in Responses :
                          FetchReturn(o, resp) =>
                             IF Classify(resp) = "returned"
                             THEN /\ ops'[o].status = "online"
                                  /\ ops'[o].value = FetchedValue(resp)
                             ELSE /\ ops'[o].status = "error"
                                  /\ ops'[o].message = Classify(resp)
                                  /\ ops'[o].value = NoValue
      ]_vars

\* C23 witness: the status of the sensor reports the error of a failed
\* fetch, and the status of the motor reports a value written before.
C23_Witness ==
    \E o \in Ops, m \in Ops :
        /\ ops[o].pc = "done" /\ ops[o].kind = "status"
        /\ ops[o].dev = "temperature"
        /\ ops[o].status = "error" /\ ops[o].message = "ConnectionError"
        /\ ops[m].pc = "done" /\ ops[m].kind = "status"
        /\ ops[m].dev = "motor" /\ ops[m].status = "online"
        /\ ops[m].value = Value("int", MotorMaxSpeed)

\* The coordinator methods that take a device id, and the operation of the
\* device each of them stands for.
ById == {"read_device", "write_device", "get_device_status"}

OperationOf(via) ==
    IF via = "read_device" THEN "read"
    ELSE IF via = "write_device" THEN "write"
    ELSE "status"

KnownId(id) == \E a \in AllDevices : DeviceId(a) = id

\* C24: read_device, write_device and get_device_status on an id that is
\* not in the collection fail with NotFound in the step of the call, invoke
\* no operation of any device and change nothing of any device; on a known
\* id they invoke the corresponding operation of the device with that id,
\* exactly once however the call goes on, and the call ends as that
\* operation ends: with the value read, the status, or the error raised.
C24_ResolveOrNotFound ==
    [][\A o \in ServiceOps :
          /\ (ops[o].pc = "idle" /\ ops'[o].via \in ById) =>
                IF KnownId(ops'[o].id)
                THEN \E a \in AllDevices :
                        /\ DeviceId(a) = ops'[o].id
                        /\ ops'[o].dev = a
                        /\ ops'[o].kind = OperationOf(ops'[o].via)
                        /\ ops'[o].calls = <<[dev |-> a, kind |-> ops'[o].kind]>>
                        /\ ops'[o].result # "NotFound"
                        /\ (ops'[o].kind = "write" /\ ops'[o].pc = "done")
                              => ops'[o].result = "ValueError"
                ELSE /\ ops'[o].pc = "done"
                     /\ ops'[o].result = "NotFound"
                     /\ ops'[o].calls = <<>>
                     /\ ops'[o].dev = "none"
                     /\ device_value' = device_value
                     /\ device_lock' = device_lock
                     /\ device_log' = device_log
                     /\ \A other \in Ops \ {o} : ops'[other] = ops[other]
          /\ (ops[o].via \in ById /\ ops[o].pc # "done") =>
                /\ ops'[o].calls = ops[o].calls
                /\ ops'[o].dev = ops[o].dev
                /\ ops'[o].kind = ops[o].kind
                /\ (ops'[o].pc = "done" /\ ops[o].dev \in Adapters) =>
                      /\ ops'[o].result = "returned"
                      /\ ops[o].kind = "read" =>
                            ops'[o].value = device_value[ops[o].dev]
                      /\ ops[o].kind = "write" =>
                            device_value'[ops[o].dev] = ops[o].value
                /\ \A resp \in Responses :
                      (FetchReturn(o, resp) /\ ops[o].kind = "read") =>
                         /\ ops'[o].result = Classify(resp)
                         /\ ops'[o].value = FetchedValue(resp)
      ]_vars

\* C24 witness: a write_device on an unknown id has failed with NotFound,
\* and a read_device on the sensor has ended with the error of its fetch.
C24_Witness ==
    \E o \in ServiceOps, r \in ServiceOps :
        /\ ops[o].via = "write_device" /\ ops[o].result = "NotFound"
        /\ ops[r].via = "read_device" /\ ops[r].dev = "temperature"
        /\ ops[r].pc = "done" /\ ops[r].result = "TimeoutError"

\* The entry the status of a device contributes: status online and the value
\* for a read that returned, status error and the failure for one that raised.
EntryOf(result, value) ==
    IF result = "returned"
    THEN [status |-> "online", value |-> value, message |-> "none"]
    ELSE [status |-> "error", value |-> NoValue, message |-> result]

\* C25: get_all_statuses returns a map with exactly one entry for every
\* device of the collection: each step of it fills the entry of the one
\* device whose get_status() has just returned, with the status of that
\* device (the stored value of a motor, servo or valve, the outcome of the
\* fetch of the sensor, an error entry when the fetch failed), leaves every
\* other entry as it was, asks every device once, and it ends only when
\* every entry is filled, never by raising.
C25_OneEntryPerDevice ==
    [][\A o \in ServiceOps :
          ops[o].via = "get_all_statuses" =>
             /\ \A a \in AllDevices :
                   ops'[o].statuses[a] # ops[o].statuses[a] =>
                      /\ a = ops[o].dev
                      /\ ops[o].statuses[a] = NoEntry
                      /\ a \in Adapters =>
                            ops'[o].statuses[a] =
                               EntryOf("returned", device_value[a])
                      /\ \A resp \in Responses :
                            FetchReturn(o, resp) =>
                               ops'[o].statuses[a] =
                                  EntryOf(Classify(resp), FetchedValue(resp))
             /\ ops'[o].pc = "done" =>
                   /\ ops'[o].result = "returned"
                   /\ \A a \in AllDevices : ops'[o].statuses[a] # NoEntry
                   /\ Len(ops'[o].calls) = Cardinality(AllDevices)
                   /\ \A a \in AllDevices :
                         \E i \in 1..Len(ops'[o].calls) :
                            ops'[o].calls[i] = [dev |-> a, kind |-> "status"]
      ]_vars

\* C25 witness: get_all_statuses has returned a map in which the sensor,
\* whose fetch failed, has an error entry, and the devices asked after it
\* have their own: the motor the speed written to it, the servo its angle.
C25_Witness ==
    \E o \in ServiceOps :
        /\ ops[o].via = "get_all_statuses" /\ ops[o].pc = "done"
        /\ ops[o].statuses["temperature"] = EntryOf("ConnectionError", NoValue)
        /\ ops[o].statuses["motor"] =
              EntryOf("returned", Value("int", MotorMaxSpeed))
        /\ ops[o].statuses["servo"] = EntryOf("returned", InitialValue("servo"))
        /\ ops[o].statuses["valve"].status = "online"

\* The setters and the getters of the coordinator.
Setters == {"set_motor_speed", "set_valve_state"}

Getters == {"get_motor_speed", "get_valve_state"}

\* C26: the convenience setters take effect on the first device of the
\* type: set_motor_speed(s) for s in 0..255 and set_valve_state(b) are
\* accepted, the value they were called with is what their critical section
\* stores in the motor or the valve, and a getter returns the value stored
\* in that device, so that a getter that follows a setter returns what the
\* setter was called with.
C26_SettersTakeEffect ==
    [][\A o \in ServiceOps :
          /\ \A speed \in SetSpeeds :
                set_motor_speed(o, speed) =>
                   /\ ops'[o].dev = "motor"
                   /\ ops'[o].result # "ValueError"
                   /\ ops'[o].value = Value("int", speed)
          /\ \A open_valve \in {0, 1} :
                set_valve_state(o, open_valve) =>
                   /\ ops'[o].dev = "valve"
                   /\ ops'[o].result # "ValueError"
                   /\ ops'[o].value = Value("bool", open_valve)
          /\ (ops[o].via \in Setters /\ CriticalSection(o)) =>
                /\ ops'[o].result = "returned"
                /\ device_value'[ops[o].dev] = ops[o].value
          /\ (ops[o].via \in Getters /\ CriticalSection(o)) =>
                /\ ops'[o].result = "returned"
                /\ ops'[o].value = device_value[ops[o].dev]
                /\ ops[o].dev =
                      (IF ops[o].via = "get_motor_speed" THEN "motor" ELSE "valve")
      ]_vars

\* The write of update request o has entered the critical section of a.
Wrote(o, a) == \E i \in 1..Len(device_log[a]) : device_log[a][i] = o

\* C28: a task for broadcast_device_change is created only by an update
\* request, only after the write of that request has stored its value and
\* returned, at most once per request, and for the device the request names;
\* a broadcast starts only from such a task. A request ends with a task
\* created exactly when its write succeeded: one that ends otherwise
\* (unknown device, rejected body, missing field, read-only or failing
\* device) has written nothing and has created no task.
C28_BroadcastAfterSuccessfulWrite ==
    [][/\ \A b \in Tasks :
             /\ broadcasts[b].pc = "init" => broadcasts'[b].pc \in {"init", "created"}
             /\ broadcasts[b].pc # "init" => broadcasts'[b].pc # "init"
             /\ broadcasts[b].pc \notin {"init", "created"}
                   => broadcasts'[b].pc # "created"
             /\ (broadcasts[b].pc = "init" /\ broadcasts'[b].pc = "created") =>
                   \E o \in ServiceOps :
                      /\ TaskOf(o) = b
                      /\ ops[o].via = "update_device"
                      /\ ops[o].dev = get_device_by_id(ops[o].id)
                      /\ ops[o].dev \in Adapters
                      /\ Wrote(o, ops[o].dev)
                      /\ ops[o].stage = "after"
                      /\ ops[o].tasks = 0 /\ ops'[o].tasks = 1
                      /\ ops'[o].pc = "done" /\ ops'[o].result = "200"
                      /\ broadcasts'[b].kind = "device_update"
                      /\ broadcasts'[b].dev = DeviceNumber(ops[o].dev)
       /\ \A o \in ServiceOps :
             /\ ops'[o].tasks = ops[o].tasks
                   \/ (broadcasts[TaskOf(o)].pc = "init"
                       /\ broadcasts'[TaskOf(o)].pc = "created")
             /\ (ops'[o].via = "update_device" /\ ops'[o].pc = "done") =>
                   IF \E a \in Adapters : Wrote(o, a)'
                   THEN /\ ops'[o].result = "200"
                        /\ ops'[o].tasks = 1
                        /\ broadcasts'[TaskOf(o)].pc # "init"
                   ELSE /\ ops'[o].result \in {"400", "404", "422", "500"}
                        /\ ops'[o].tasks = 0
                        /\ broadcasts'[TaskOf(o)].pc = "init"
      ]_vars

\* C28 witness: an update of the servo has succeeded and its broadcast has
\* been sent to the connection, while an update without the field its device
\* requires was answered 400 and has no broadcast.
C28_Witness ==
    \E o \in ServiceOps, f \in ServiceOps :
        /\ ops[o].via = "update_device" /\ ops[o].result = "200"
        /\ ops[o].dev = "servo"
        /\ device_value["servo"] = Value("int", 92)
        /\ broadcasts[TaskOf(o)].pc = "done"
        /\ \E c \in Conns : broadcasts[TaskOf(o)].attempts[c] = 1
        /\ ops[f].via = "update_device" /\ ops[f].result = "400"
        /\ ops[f].dev = "motor"
        /\ broadcasts[TaskOf(f)].pc = "init"

\* C31: the active set and the subscription index are guarded as a unit:
\* while a broadcast is in its dispatch phase (sending, or about to reap),
\* a step that is not a step of a broadcast (a connect, disconnect,
\* subscribe or unsubscribe of an endpoint handler) changes neither the
\* active set nor the subscription index.
C31_RegistryGuardedDuringDispatch ==
    [][((\E b \in Tasks : Dispatching(b)) /\ broadcasts' = broadcasts)
          => /\ active_connections' = active_connections
             /\ device_subscriptions' = device_subscriptions
      ]_vars

\* C32: within one broadcast the sends are concurrent: as long as the send
\* to a target has not started it can start, whatever the state of the sends
\* to the other targets, one that never completes included.
C32_SendsStartIndependently ==
    \A b \in Tasks, c \in Conns :
        (broadcasts[b].pc = "sending" /\ broadcasts[b].send[c] = "created")
           => ENABLED SafeSendStart(b, c)

\* C32 witness: the send to one target has started and completed while the
\* send to another target, started before it, is still pending.
C32_Witness ==
    \E b \in Tasks, c1 \in Conns, c2 \in Conns :
        /\ broadcasts[b].pc = "sending"
        /\ broadcasts[b].send[c1] = "sending"
        /\ broadcasts[b].send[c2] = "sent"

\* C33: the broadcast of an update is fire-and-forget: the step that creates
\* the task of the broadcast is the step that returns the response, a
\* success carrying the value read back from the device, while the
\* broadcast has not started; and nothing the broadcast does afterwards
\* (sends that succeed, fail or stay pending) changes the response.
C33_ResponseIndependentOfBroadcast ==
    [][\A o \in ServiceOps :
          /\ (broadcasts[TaskOf(o)].pc = "init"
              /\ broadcasts'[TaskOf(o)].pc # "init") =>
                /\ broadcasts'[TaskOf(o)].pc = "created"
                /\ ops'[o].pc = "done"
                /\ ops'[o].result = "200"
                /\ ops'[o].value = ops[o].value
          /\ (ops[o].via = "update_device" /\ ops[o].pc = "done") =>
                ops'[o] = ops[o]
      ]_vars

\* C33 witness: two updates were answered as successes; the broadcast of one
\* has not started yet, and a send of the broadcast of the other has failed.
C33_Witness ==
    \E o \in ServiceOps, f \in ServiceOps :
        /\ ops[o].result = "200" /\ ops[f].result = "200"
        /\ broadcasts[TaskOf(o)].pc = "created"
        /\ broadcasts[TaskOf(f)].pc = "done"
        /\ broadcasts[TaskOf(f)].failed # {}

\* C34: when the endpoint handler of a connection ends after connect, on a
\* client disconnect or on any other error of its receive loop, the step in
\* which it ends leaves the registry as disconnect leaves it, and from then
\* on the connection is in neither the active set nor any subscriber set.
C34_HandlerEndDisconnects ==
    [][\A c \in Conns :
          /\ (handlers[c].pc \notin {"Connecting", "done"} /\ handlers'[c].pc = "done")
                => Registry' = Disconnect(Registry, c)
          /\ handlers'[c].pc = "done" =>
                /\ c \notin active_connections'
                /\ c \notin Subscribed(device_subscriptions')
      ]_vars

\* C34 witness: the handler of a connection that was active and subscribed
\* has ended while a broadcast that covers the connection was sending, and
\* every handler has ended.
C34_Witness ==
    \E c \in Conns, b \in Tasks :
        /\ handlers[c].pc = "done"
        /\ handlers[c].op.kind = "disconnect"
        /\ handlers[c].op.was_subscribed
        /\ handlers[c].op.was_active
        /\ broadcasts[b].pc = "sending"
        /\ c \in broadcasts[b].snapshot
        /\ \A other \in Conns : handlers[other].pc = "done"

\* C35: provided every send eventually succeeds or fails, every broadcast
\* that was called terminates, also one that waits for the lock and finds
\* the active set empty when it gets it, and one that has failed connections
\* to reap while it holds the lock; and whenever no broadcast is under way
\* the broadcast lock is free.
C35_BroadcastsTerminate ==
    /\ \A b \in Tasks :
          (broadcasts[b].pc \in {"wait_lock", "sending"}) ~> (broadcasts[b].pc = "done")
    /\ []((\A b \in Tasks : broadcasts[b].pc \in {"init", "done"})
            => LockFree(broadcast_lock))

\* C35 witness: every broadcast has finished and the lock is free; one of
\* them reaped a failed connection while it held the lock, and another got
\* the lock after waiting and returned on the active set it found empty.
C35_Witness ==
    /\ \A b \in Tasks : broadcasts[b].pc = "done"
    /\ LockFree(broadcast_lock)
    /\ \E b1 \in Tasks, b2 \in Tasks :
          /\ broadcasts[b1].failed # {}
          /\ broadcasts[b2].result = "returned"
          /\ broadcasts[b2].snapshot = {}

\* C36: in every reachable state, after any sequence of accepted and
\* rejected writes, the stored value of the motor is an integer in 0..255,
\* that of the servo an integer in 0..180, and that of the valve a boolean.
C36_StoredValuesInDomain ==
    /\ device_value["motor"].type = "int"
    /\ device_value["motor"].val \in 0..MotorMaxSpeed
    /\ device_value["servo"].type = "int"
    /\ device_value["servo"].val \in 0..ServoMaxAngle
    /\ device_value["valve"].type = "bool"

\* C37: in get_all_statuses the status of a device is obtained without
\* waiting for the status call of any other device: while the call waits for
\* the status of one device, every device whose entry is still missing has
\* been asked for its status as well.
C37_StatusesNotSerialised ==
    \A o \in ServiceOps :
        (ops[o].via = "get_all_statuses" /\ ops[o].pc # "done") =>
           \A a \in AllDevices :
              ops[o].statuses[a] = NoEntry =>
                 \E i \in 1..Len(ops[o].calls) : ops[o].calls[i].dev = a

\* The type tags of the specification.
TypeTags == {"motor", "servo", "valve", "temperature"}

\* C38: the type tag of every device a call has resolved is one of motor,
\* servo, valve and temperature, and the update endpoint dispatches on those
\* tags: an update of the temperature device is rejected as read-only.
C38_EnumeratedTypeTags ==
    \A o \in ServiceOps :
        /\ ops[o].dev \in AllDevices => device_type(ops[o].dev) \in TypeTags
        /\ (ops[o].via = "update_device" /\ ops[o].dev = "temperature"
            /\ ops[o].result = "400") => ops[o].message = "read_only"

\* C39: the previous_state and the new_state of the response of an update
\* are the value of the device immediately before and immediately after the
\* write of this request: when the write stores its value the device holds
\* the previous_state the request has read, and the new_state the request
\* answers with is the value it wrote, also when another update of the same
\* device runs at the same time.
C39_ResponseStatesAreOwnWrite ==
    [][\A o \in ServiceOps :
          ops[o].via = "update_device" =>
             /\ (ops[o].stage = "write" /\ CriticalSection(o))
                   => device_value[ops[o].dev] = ops[o].previous
             /\ ops'[o].result = "200"
                   => ops'[o].value = UpdatePayload(ops[o].dev, ops[o].request).value
      ]_vars

\* C40: the subscription index never holds an empty subscriber set: every
\* device id that is a key of device_subscriptions maps to a non-empty set,
\* after any sequence of subscribe, unsubscribe, disconnect and failed sends.
C40_NoEmptySubscriberSet ==
    \A d \in DOMAIN device_subscriptions : device_subscriptions[d] # {}

\* C40 witness: the last subscriber of a device has unsubscribed and the key
\* of that device is gone, while another device keeps its key and its
\* subscriber, and a failed send has removed a connection.
C40_Witness ==
    \E c \in Conns, d \in Devices, gone \in Conns :
        /\ handlers[c].op.kind = "unsubscribe"
        /\ handlers[c].op.dev = d
        /\ handlers[c].op.was_subscribed
        /\ d \notin DOMAIN device_subscriptions
        /\ DOMAIN device_subscriptions # {}
        /\ Reaped(gone)

====
